---- MODULE Spec2Model ----
(***************************************************************************)
(* Model of coro_rt_bot.py: a one-shot bot that reads the recent posts of  *)
(* the configured accounts, classifies each post as a stream announcement  *)
(* (is_streaming_tweet) and retweets the unseen ones, keeping the ids of   *)
(* the posts it retweeted in retweeted_ids.json.                           *)
(*                                                                         *)
(* Text is modelled by TLA+ strings.  A TLA+ string holds ASCII only, so   *)
(* each Japanese character of the source is written as one bracketed      *)
(* token; the brackets occur nowhere else in the modelled texts:           *)
(*   <hai> <shin> <ha> <ji> <ma> <ru> <yo>   = the 7 characters of         *)
(*                                              KEYWORDS[0] (line 21)      *)
(*   <tsugi> <no> <hai> <shin>               = KEYWORDS[4] (line 25)       *)
(*   <ao> <umi> <shi> <bi> / <rai> <rin> <mi> <yu> <ze>                    *)
(*                                            = the names in HASHTAGS      *)
(*   <ya> <o> <tsuka> <re> <ima> <hi> <ten> <ki> <ga> <i> <ne>             *)
(*                                            = characters of sample texts *)
(*   <u+xxxx>                                 = the character of that code *)
(*                                              point, in hexadecimal      *)
(* The character U+003C itself is written <u+003c>.                        *)
(***************************************************************************)
EXTENDS Integers, Sequences, FiniteSets, TLC

VARIABLES
    file,            \* retweeted_ids.json: [exists, content]
    pc,              \* position of the process in main()
    run,             \* number of the current run of the process (1..MaxRuns)
    already_rt_ids,  \* the in-memory set main() hands to fetch_and_rt_for_user
    user,            \* index in TARGET_USERS of the account being handled
    statuses,        \* what api.user_timeline returned for that account
    pos,             \* index in statuses of the post handled next
    error,           \* the exception that ended the run ("" when none)
    rt_success,      \* history: per id, number of api.retweet calls that succeeded
    rt_failed,       \* history: ids whose api.retweet call raised in this run
    run_calls,       \* history: account indices for which this run called api.retweet
    fetch_failed,    \* history: account indices whose fetch raised in this run
    saves,           \* history: number of save_retweeted_ids calls in this run
    file_at_start,   \* history: the file as it was when this run started
    file_at_init,    \* history: the file as it was before the first run
    survives,        \* history: every run so far that retweeted also saved
    did,             \* history: kinds of call this run made ("verify", "load", "fetch", "retweet")
    log_lines,       \* history: number of lines this run printed
    classify_calls,  \* history: number of is_streaming_tweet calls of this run
    rt_calls,        \* history: per id, number of api.retweet calls of this run
    ok_run,          \* history: ids whose api.retweet call returned in this run
    prev_failed,     \* history: ids whose api.retweet call raised in an earlier run and never returned
    fetched_ids,     \* history: ids of the posts this run's fetches returned
    invoked,         \* history: account indices fetch_and_rt_for_user was called for, in call order
    handled,         \* history: ids of the posts the current call has handled, in order
    pending,         \* history: posts of the current call's timeline not handled yet
    missing,         \* history: the credentials this run's environment lacked
    status,          \* input of the classifier specification
    result           \* result of the classifier specification

vars == <<file, pc, run, already_rt_ids, user, statuses, pos, error, rt_success,
          rt_failed, run_calls, fetch_failed, saves, file_at_start, file_at_init,
          survives, did, log_lines, classify_calls, rt_calls, ok_run, prev_failed,
          fetched_ids, invoked, handled, pending, missing, status, result>>

(***************************************************************************)
(* Configuration (lines 13-36)                                             *)
(***************************************************************************)
TARGET_USERS == <<"Aomishibi", "kurin_musee">>

KEYWORDS == << "<hai><shin><ha><ji><ma><ru><yo>",
               "http://twitch.tv/aomishibi",
               "twitch.tv/aomishibi",
               "twitch.tv/kurin_musee",
               "<tsugi><no><hai><shin>" >>

HASHTAGS == << "CORO<hai><shin>",
               "<ao><umi><shi><bi><hai><shin>",
               "<rai><rin><mi><yu><ze><hai><shin>" >>

\* the inline list of line 122
SERVICES == << "youtube.com", "youtu.be", "twitch.tv", "nicovideo.jp" >>

Range(s) == { s[i] : i \in DOMAIN s }

(***************************************************************************)
(* Python str operations used by the program                               *)
(***************************************************************************)
Char(s, i) == SubSeq(s, i, i)

UpperCase == "ABCDEFGHIJKLMNOPQRSTUVWXYZ"
LowerCase == "abcdefghijklmnopqrstuvwxyz"

\* the characters str.strip() removes (those of str.isspace): the five a TLA+
\* string can hold, and the others written <u+xxxx>
Whitespace == " \t\n\r\f"

WhitespaceTokens ==
    { "<u+000b>", "<u+001c>", "<u+001d>", "<u+001e>", "<u+001f>", "<u+0085>",
      "<u+00a0>", "<u+1680>", "<u+2000>", "<u+2001>", "<u+2002>", "<u+2003>",
      "<u+2004>", "<u+2005>", "<u+2006>", "<u+2007>", "<u+2008>", "<u+2009>",
      "<u+200a>", "<u+2028>", "<u+2029>", "<u+202f>", "<u+205f>", "<u+3000>" }

\* the characters i to j of s that exist
Slice(s, i, j) ==
    LET a == IF i < 1 THEN 1 ELSE i
        b == IF j > Len(s) THEN Len(s) ELSE j
    IN  IF b < a THEN "" ELSE SubSeq(s, a, b)

InStr(c, s) == \E i \in 1..Len(s) : Char(s, i) = c

\* str.lower() on one ASCII character; the bracketed names of the Japanese
\* characters are written in lower case and stay
LowerChar(c) ==
    IF InStr(c, UpperCase)
    THEN Char(LowerCase, CHOOSE i \in 1..Len(UpperCase) : Char(UpperCase, i) = c)
    ELSE c

startswith(s, prefix) ==
    Len(s) >= Len(prefix) /\ SubSeq(s, 1, Len(prefix)) = prefix

Digits == "0123456789"
HexDigits == "0123456789abcdef"

\* the characters U+0020 to U+007E in the order of their code points, without
\* U+0060, which a string of the model cannot hold and is written <u+0060>
Ascii ==
    " !\"#$%&'()*+,-./0123456789:;<=>?@ABCDEFGHIJKLMNOPQRSTUVWXYZ[\\]^_abcdefghijklmnopqrstuvwxyz{|}~"

\* s[i:i+1]: the character at i, "" past the end
At(s, i) == IF 1 <= i /\ i <= Len(s) THEN Char(s, i) ELSE ""

IndexIn(c, s) == CHOOSE i \in 1..Len(s) : Char(s, i) = c

\* str(n) for an int n >= 0
RECURSIVE int_str(_)
int_str(n) ==
    IF n < 10 THEN Char(Digits, n + 1)
    ELSE int_str(n \div 10) \o Char(Digits, (n % 10) + 1)

\* int(s) for a text of digits
RECURSIVE str_int(_)
str_int(s) ==
    IF s = "" THEN 0
    ELSE 10 * str_int(Slice(s, 1, Len(s) - 1)) + (IndexIn(Char(s, Len(s)), Digits) - 1)

\* "0" * n
RECURSIVE zeros(_)
zeros(n) ==
    IF n <= 0 THEN ""
    ELSE IF n = 1 THEN "0"
    ELSE zeros(n \div 2) \o zeros(n - (n \div 2))

IsHex(s) == s # "" /\ \A i \in 1..Len(s) : InStr(LowerChar(Char(s, i)), HexDigits)

RECURSIVE hex_int(_)
hex_int(s) ==
    IF s = "" THEN 0
    ELSE 16 * hex_int(Slice(s, 1, Len(s) - 1))
         + (IndexIn(LowerChar(Char(s, Len(s))), HexDigits) - 1)

RECURSIVE int_hex(_)
int_hex(n) ==
    IF n < 16 THEN Char(HexDigits, n + 1)
    ELSE int_hex(n \div 16) \o Char(HexDigits, (n % 16) + 1)

\* chr(code) as the model writes it: U+003C, which opens the <u+xxxx> of the
\* other characters, is written <u+003c>
chr(code) ==
    IF code = 9 THEN "\t"
    ELSE IF code = 10 THEN "\n"
    ELSE IF code = 12 THEN "\f"
    ELSE IF code = 13 THEN "\r"
    ELSE IF 32 <= code /\ code <= 95 /\ code # 60 THEN Char(Ascii, code - 31)
    ELSE IF 97 <= code /\ code <= 126 THEN Char(Ascii, code - 32)
    ELSE LET h == int_hex(code) IN "<u+" \o zeros(4 - Len(h)) \o h \o ">"

\* the length of the <u+xxxx> that s begins with, 0 when it begins with none
TokenLen(s) ==
    IF ~startswith(s, "<u+") THEN 0
    ELSE IF \E n \in 4..6 : At(s, n + 4) = ">" /\ IsHex(Slice(s, 4, n + 3))
         THEN 4 + (CHOOSE n \in 4..6 : At(s, n + 4) = ">" /\ IsHex(Slice(s, 4, n + 3)))
         ELSE 0

\* the length of the first character of s
FirstLen(s) == IF TokenLen(s) > 0 THEN TokenLen(s) ELSE 1

\* ord(c) of a character written as itself or <u+xxxx>
ord(c) ==
    IF c = "\t" THEN 9
    ELSE IF c = "\n" THEN 10
    ELSE IF c = "\f" THEN 12
    ELSE IF c = "\r" THEN 13
    ELSE IF TokenLen(c) > 0 THEN hex_int(Slice(c, 4, Len(c) - 1))
    ELSE IF IndexIn(c, Ascii) <= 64 THEN IndexIn(c, Ascii) + 31
    ELSE IndexIn(c, Ascii) + 32

\* str.lower() on one character, as the Unicode database of the interpreter has
\* it (Unicode 14.0.0): <<first, last, step, offset>> stands for the code points
\* first, first + step, ..., last, each of which lower-cases to itself + offset
LowerRanges ==
    <<<<65, 90, 1, 32>>, <<192, 214, 1, 32>>, <<216, 222, 1, 32>>,
    <<256, 302, 2, 1>>, <<306, 310, 2, 1>>, <<313, 327, 2, 1>>,
    <<330, 374, 2, 1>>, <<376, 376, 1, -121>>, <<377, 381, 2, 1>>,
    <<385, 385, 1, 210>>, <<386, 388, 2, 1>>, <<390, 390, 1, 206>>,
    <<391, 391, 1, 1>>, <<393, 394, 1, 205>>, <<395, 395, 1, 1>>,
    <<398, 398, 1, 79>>, <<399, 399, 1, 202>>, <<400, 400, 1, 203>>,
    <<401, 401, 1, 1>>, <<403, 403, 1, 205>>, <<404, 404, 1, 207>>,
    <<406, 406, 1, 211>>, <<407, 407, 1, 209>>, <<408, 408, 1, 1>>,
    <<412, 412, 1, 211>>, <<413, 413, 1, 213>>, <<415, 415, 1, 214>>,
    <<416, 420, 2, 1>>, <<422, 422, 1, 218>>, <<423, 423, 1, 1>>,
    <<425, 425, 1, 218>>, <<428, 428, 1, 1>>, <<430, 430, 1, 218>>,
    <<431, 431, 1, 1>>, <<433, 434, 1, 217>>, <<435, 437, 2, 1>>,
    <<439, 439, 1, 219>>, <<440, 440, 1, 1>>, <<444, 444, 1, 1>>,
    <<452, 452, 1, 2>>, <<453, 453, 1, 1>>, <<455, 455, 1, 2>>,
    <<456, 456, 1, 1>>, <<458, 458, 1, 2>>, <<459, 475, 2, 1>>,
    <<478, 494, 2, 1>>, <<497, 497, 1, 2>>, <<498, 500, 2, 1>>,
    <<502, 502, 1, -97>>, <<503, 503, 1, -56>>, <<504, 542, 2, 1>>,
    <<544, 544, 1, -130>>, <<546, 562, 2, 1>>, <<570, 570, 1, 10795>>,
    <<571, 571, 1, 1>>, <<573, 573, 1, -163>>, <<574, 574, 1, 10792>>,
    <<577, 577, 1, 1>>, <<579, 579, 1, -195>>, <<580, 580, 1, 69>>,
    <<581, 581, 1, 71>>, <<582, 590, 2, 1>>, <<880, 882, 2, 1>>,
    <<886, 886, 1, 1>>, <<895, 895, 1, 116>>, <<902, 902, 1, 38>>,
    <<904, 906, 1, 37>>, <<908, 908, 1, 64>>, <<910, 911, 1, 63>>,
    <<913, 929, 1, 32>>, <<931, 939, 1, 32>>, <<975, 975, 1, 8>>,
    <<984, 1006, 2, 1>>, <<1012, 1012, 1, -60>>, <<1015, 1015, 1, 1>>,
    <<1017, 1017, 1, -7>>, <<1018, 1018, 1, 1>>, <<1021, 1023, 1, -130>>,
    <<1024, 1039, 1, 80>>, <<1040, 1071, 1, 32>>, <<1120, 1152, 2, 1>>,
    <<1162, 1214, 2, 1>>, <<1216, 1216, 1, 15>>, <<1217, 1229, 2, 1>>,
    <<1232, 1326, 2, 1>>, <<1329, 1366, 1, 48>>, <<4256, 4293, 1, 7264>>,
    <<4295, 4295, 1, 7264>>, <<4301, 4301, 1, 7264>>,
    <<5024, 5103, 1, 38864>>, <<5104, 5109, 1, 8>>, <<7312, 7354, 1, -3008>>,
    <<7357, 7359, 1, -3008>>, <<7680, 7828, 2, 1>>, <<7838, 7838, 1, -7615>>,
    <<7840, 7934, 2, 1>>, <<7944, 7951, 1, -8>>, <<7960, 7965, 1, -8>>,
    <<7976, 7983, 1, -8>>, <<7992, 7999, 1, -8>>, <<8008, 8013, 1, -8>>,
    <<8025, 8031, 2, -8>>, <<8040, 8047, 1, -8>>, <<8072, 8079, 1, -8>>,
    <<8088, 8095, 1, -8>>, <<8104, 8111, 1, -8>>, <<8120, 8121, 1, -8>>,
    <<8122, 8123, 1, -74>>, <<8124, 8124, 1, -9>>, <<8136, 8139, 1, -86>>,
    <<8140, 8140, 1, -9>>, <<8152, 8153, 1, -8>>, <<8154, 8155, 1, -100>>,
    <<8168, 8169, 1, -8>>, <<8170, 8171, 1, -112>>, <<8172, 8172, 1, -7>>,
    <<8184, 8185, 1, -128>>, <<8186, 8187, 1, -126>>, <<8188, 8188, 1, -9>>,
    <<8486, 8486, 1, -7517>>, <<8490, 8490, 1, -8383>>,
    <<8491, 8491, 1, -8262>>, <<8498, 8498, 1, 28>>, <<8544, 8559, 1, 16>>,
    <<8579, 8579, 1, 1>>, <<9398, 9423, 1, 26>>, <<11264, 11311, 1, 48>>,
    <<11360, 11360, 1, 1>>, <<11362, 11362, 1, -10743>>,
    <<11363, 11363, 1, -3814>>, <<11364, 11364, 1, -10727>>,
    <<11367, 11371, 2, 1>>, <<11373, 11373, 1, -10780>>,
    <<11374, 11374, 1, -10749>>, <<11375, 11375, 1, -10783>>,
    <<11376, 11376, 1, -10782>>, <<11378, 11378, 1, 1>>,
    <<11381, 11381, 1, 1>>, <<11390, 11391, 1, -10815>>,
    <<11392, 11490, 2, 1>>, <<11499, 11501, 2, 1>>, <<11506, 11506, 1, 1>>,
    <<42560, 42604, 2, 1>>, <<42624, 42650, 2, 1>>, <<42786, 42798, 2, 1>>,
    <<42802, 42862, 2, 1>>, <<42873, 42875, 2, 1>>,
    <<42877, 42877, 1, -35332>>, <<42878, 42886, 2, 1>>,
    <<42891, 42891, 1, 1>>, <<42893, 42893, 1, -42280>>,
    <<42896, 42898, 2, 1>>, <<42902, 42920, 2, 1>>,
    <<42922, 42922, 1, -42308>>, <<42923, 42923, 1, -42319>>,
    <<42924, 42924, 1, -42315>>, <<42925, 42925, 1, -42305>>,
    <<42926, 42926, 1, -42308>>, <<42928, 42928, 1, -42258>>,
    <<42929, 42929, 1, -42282>>, <<42930, 42930, 1, -42261>>,
    <<42931, 42931, 1, 928>>, <<42932, 42946, 2, 1>>,
    <<42948, 42948, 1, -48>>, <<42949, 42949, 1, -42307>>,
    <<42950, 42950, 1, -35384>>, <<42951, 42953, 2, 1>>,
    <<42960, 42960, 1, 1>>, <<42966, 42968, 2, 1>>, <<42997, 42997, 1, 1>>,
    <<65313, 65338, 1, 32>>, <<66560, 66599, 1, 40>>, <<66736, 66771, 1, 40>>,
    <<66928, 66964, 2, 39>>, <<66929, 66937, 2, 39>>, <<66941, 66953, 2, 39>>,
    <<66957, 66961, 2, 39>>, <<66965, 66965, 1, 39>>, <<68736, 68786, 1, 64>>,
    <<71840, 71871, 1, 32>>, <<93760, 93791, 1, 32>>,
    <<125184, 125217, 1, 34>> >>

InRanges(code, ranges) ==
    \E k \in DOMAIN ranges : ranges[k][1] <= code /\ code <= ranges[k][2]

\* the cased characters (upper-case, lower-case or title-case): <<first, last>>
IsCased(code) ==
    InRanges(code,
    <<<<65, 90>>, <<97, 122>>, <<170, 170>>, <<181, 181>>, <<186, 186>>,
    <<192, 214>>, <<216, 246>>, <<248, 442>>, <<444, 447>>, <<452, 659>>,
    <<661, 696>>, <<704, 705>>, <<736, 740>>, <<837, 837>>, <<880, 883>>,
    <<886, 887>>, <<890, 893>>, <<895, 895>>, <<902, 902>>, <<904, 906>>,
    <<908, 908>>, <<910, 929>>, <<931, 1013>>, <<1015, 1153>>, <<1162, 1327>>,
    <<1329, 1366>>, <<1376, 1416>>, <<4256, 4293>>, <<4295, 4295>>,
    <<4301, 4301>>, <<4304, 4346>>, <<4349, 4351>>, <<5024, 5109>>,
    <<5112, 5117>>, <<7296, 7304>>, <<7312, 7354>>, <<7357, 7359>>,
    <<7424, 7615>>, <<7680, 7957>>, <<7960, 7965>>, <<7968, 8005>>,
    <<8008, 8013>>, <<8016, 8023>>, <<8025, 8025>>, <<8027, 8027>>,
    <<8029, 8029>>, <<8031, 8061>>, <<8064, 8116>>, <<8118, 8124>>,
    <<8126, 8126>>, <<8130, 8132>>, <<8134, 8140>>, <<8144, 8147>>,
    <<8150, 8155>>, <<8160, 8172>>, <<8178, 8180>>, <<8182, 8188>>,
    <<8305, 8305>>, <<8319, 8319>>, <<8336, 8348>>, <<8450, 8450>>,
    <<8455, 8455>>, <<8458, 8467>>, <<8469, 8469>>, <<8473, 8477>>,
    <<8484, 8484>>, <<8486, 8486>>, <<8488, 8488>>, <<8490, 8493>>,
    <<8495, 8500>>, <<8505, 8505>>, <<8508, 8511>>, <<8517, 8521>>,
    <<8526, 8526>>, <<8544, 8575>>, <<8579, 8580>>, <<9398, 9449>>,
    <<11264, 11492>>, <<11499, 11502>>, <<11506, 11507>>, <<11520, 11557>>,
    <<11559, 11559>>, <<11565, 11565>>, <<42560, 42605>>, <<42624, 42653>>,
    <<42786, 42887>>, <<42891, 42894>>, <<42896, 42954>>, <<42960, 42961>>,
    <<42963, 42963>>, <<42965, 42969>>, <<42997, 42998>>, <<43000, 43002>>,
    <<43824, 43866>>, <<43868, 43880>>, <<43888, 43967>>, <<64256, 64262>>,
    <<64275, 64279>>, <<65313, 65338>>, <<65345, 65370>>, <<66560, 66639>>,
    <<66736, 66771>>, <<66776, 66811>>, <<66928, 66938>>, <<66940, 66954>>,
    <<66956, 66962>>, <<66964, 66965>>, <<66967, 66977>>, <<66979, 66993>>,
    <<66995, 67001>>, <<67003, 67004>>, <<67456, 67456>>, <<67459, 67461>>,
    <<67463, 67504>>, <<67506, 67514>>, <<68736, 68786>>, <<68800, 68850>>,
    <<71840, 71903>>, <<93760, 93823>>, <<119808, 119892>>,
    <<119894, 119964>>, <<119966, 119967>>, <<119970, 119970>>,
    <<119973, 119974>>, <<119977, 119980>>, <<119982, 119993>>,
    <<119995, 119995>>, <<119997, 120003>>, <<120005, 120069>>,
    <<120071, 120074>>, <<120077, 120084>>, <<120086, 120092>>,
    <<120094, 120121>>, <<120123, 120126>>, <<120128, 120132>>,
    <<120134, 120134>>, <<120138, 120144>>, <<120146, 120485>>,
    <<120488, 120512>>, <<120514, 120538>>, <<120540, 120570>>,
    <<120572, 120596>>, <<120598, 120628>>, <<120630, 120654>>,
    <<120656, 120686>>, <<120688, 120712>>, <<120714, 120744>>,
    <<120746, 120770>>, <<120772, 120779>>, <<122624, 122633>>,
    <<122635, 122654>>, <<125184, 125251>>, <<127280, 127305>>,
    <<127312, 127337>>, <<127344, 127369>> >>)

\* the case-ignorable characters: <<first, last>>
IsCaseIgnorable(code) ==
    InRanges(code,
    <<<<39, 39>>, <<46, 46>>, <<58, 58>>, <<94, 94>>, <<96, 96>>, <<168, 168>>,
    <<173, 173>>, <<175, 175>>, <<180, 180>>, <<183, 184>>, <<688, 879>>,
    <<884, 885>>, <<890, 890>>, <<900, 901>>, <<903, 903>>, <<1155, 1161>>,
    <<1369, 1369>>, <<1375, 1375>>, <<1425, 1469>>, <<1471, 1471>>,
    <<1473, 1474>>, <<1476, 1477>>, <<1479, 1479>>, <<1524, 1524>>,
    <<1536, 1541>>, <<1552, 1562>>, <<1564, 1564>>, <<1600, 1600>>,
    <<1611, 1631>>, <<1648, 1648>>, <<1750, 1757>>, <<1759, 1768>>,
    <<1770, 1773>>, <<1807, 1807>>, <<1809, 1809>>, <<1840, 1866>>,
    <<1958, 1968>>, <<2027, 2037>>, <<2042, 2042>>, <<2045, 2045>>,
    <<2070, 2093>>, <<2137, 2139>>, <<2184, 2184>>, <<2192, 2193>>,
    <<2200, 2207>>, <<2249, 2306>>, <<2362, 2362>>, <<2364, 2364>>,
    <<2369, 2376>>, <<2381, 2381>>, <<2385, 2391>>, <<2402, 2403>>,
    <<2417, 2417>>, <<2433, 2433>>, <<2492, 2492>>, <<2497, 2500>>,
    <<2509, 2509>>, <<2530, 2531>>, <<2558, 2558>>, <<2561, 2562>>,
    <<2620, 2620>>, <<2625, 2626>>, <<2631, 2632>>, <<2635, 2637>>,
    <<2641, 2641>>, <<2672, 2673>>, <<2677, 2677>>, <<2689, 2690>>,
    <<2748, 2748>>, <<2753, 2757>>, <<2759, 2760>>, <<2765, 2765>>,
    <<2786, 2787>>, <<2810, 2815>>, <<2817, 2817>>, <<2876, 2876>>,
    <<2879, 2879>>, <<2881, 2884>>, <<2893, 2893>>, <<2901, 2902>>,
    <<2914, 2915>>, <<2946, 2946>>, <<3008, 3008>>, <<3021, 3021>>,
    <<3072, 3072>>, <<3076, 3076>>, <<3132, 3132>>, <<3134, 3136>>,
    <<3142, 3144>>, <<3146, 3149>>, <<3157, 3158>>, <<3170, 3171>>,
    <<3201, 3201>>, <<3260, 3260>>, <<3263, 3263>>, <<3270, 3270>>,
    <<3276, 3277>>, <<3298, 3299>>, <<3328, 3329>>, <<3387, 3388>>,
    <<3393, 3396>>, <<3405, 3405>>, <<3426, 3427>>, <<3457, 3457>>,
    <<3530, 3530>>, <<3538, 3540>>, <<3542, 3542>>, <<3633, 3633>>,
    <<3636, 3642>>, <<3654, 3662>>, <<3761, 3761>>, <<3764, 3772>>,
    <<3782, 3782>>, <<3784, 3789>>, <<3864, 3865>>, <<3893, 3893>>,
    <<3895, 3895>>, <<3897, 3897>>, <<3953, 3966>>, <<3968, 3972>>,
    <<3974, 3975>>, <<3981, 3991>>, <<3993, 4028>>, <<4038, 4038>>,
    <<4141, 4144>>, <<4146, 4151>>, <<4153, 4154>>, <<4157, 4158>>,
    <<4184, 4185>>, <<4190, 4192>>, <<4209, 4212>>, <<4226, 4226>>,
    <<4229, 4230>>, <<4237, 4237>>, <<4253, 4253>>, <<4348, 4348>>,
    <<4957, 4959>>, <<5906, 5908>>, <<5938, 5939>>, <<5970, 5971>>,
    <<6002, 6003>>, <<6068, 6069>>, <<6071, 6077>>, <<6086, 6086>>,
    <<6089, 6099>>, <<6103, 6103>>, <<6109, 6109>>, <<6155, 6159>>,
    <<6211, 6211>>, <<6277, 6278>>, <<6313, 6313>>, <<6432, 6434>>,
    <<6439, 6440>>, <<6450, 6450>>, <<6457, 6459>>, <<6679, 6680>>,
    <<6683, 6683>>, <<6742, 6742>>, <<6744, 6750>>, <<6752, 6752>>,
    <<6754, 6754>>, <<6757, 6764>>, <<6771, 6780>>, <<6783, 6783>>,
    <<6823, 6823>>, <<6832, 6862>>, <<6912, 6915>>, <<6964, 6964>>,
    <<6966, 6970>>, <<6972, 6972>>, <<6978, 6978>>, <<7019, 7027>>,
    <<7040, 7041>>, <<7074, 7077>>, <<7080, 7081>>, <<7083, 7085>>,
    <<7142, 7142>>, <<7144, 7145>>, <<7149, 7149>>, <<7151, 7153>>,
    <<7212, 7219>>, <<7222, 7223>>, <<7288, 7293>>, <<7376, 7378>>,
    <<7380, 7392>>, <<7394, 7400>>, <<7405, 7405>>, <<7412, 7412>>,
    <<7416, 7417>>, <<7468, 7530>>, <<7544, 7544>>, <<7579, 7679>>,
    <<8125, 8125>>, <<8127, 8129>>, <<8141, 8143>>, <<8157, 8159>>,
    <<8173, 8175>>, <<8189, 8190>>, <<8203, 8207>>, <<8216, 8217>>,
    <<8228, 8228>>, <<8231, 8231>>, <<8234, 8238>>, <<8288, 8292>>,
    <<8294, 8303>>, <<8305, 8305>>, <<8319, 8319>>, <<8336, 8348>>,
    <<8400, 8432>>, <<11388, 11389>>, <<11503, 11505>>, <<11631, 11631>>,
    <<11647, 11647>>, <<11744, 11775>>, <<11823, 11823>>, <<12293, 12293>>,
    <<12330, 12333>>, <<12337, 12341>>, <<12347, 12347>>, <<12441, 12446>>,
    <<12540, 12542>>, <<40981, 40981>>, <<42232, 42237>>, <<42508, 42508>>,
    <<42607, 42610>>, <<42612, 42621>>, <<42623, 42623>>, <<42652, 42655>>,
    <<42736, 42737>>, <<42752, 42785>>, <<42864, 42864>>, <<42888, 42890>>,
    <<42994, 42996>>, <<43000, 43001>>, <<43010, 43010>>, <<43014, 43014>>,
    <<43019, 43019>>, <<43045, 43046>>, <<43052, 43052>>, <<43204, 43205>>,
    <<43232, 43249>>, <<43263, 43263>>, <<43302, 43309>>, <<43335, 43345>>,
    <<43392, 43394>>, <<43443, 43443>>, <<43446, 43449>>, <<43452, 43453>>,
    <<43471, 43471>>, <<43493, 43494>>, <<43561, 43566>>, <<43569, 43570>>,
    <<43573, 43574>>, <<43587, 43587>>, <<43596, 43596>>, <<43632, 43632>>,
    <<43644, 43644>>, <<43696, 43696>>, <<43698, 43700>>, <<43703, 43704>>,
    <<43710, 43711>>, <<43713, 43713>>, <<43741, 43741>>, <<43756, 43757>>,
    <<43763, 43764>>, <<43766, 43766>>, <<43867, 43871>>, <<43881, 43883>>,
    <<44005, 44005>>, <<44008, 44008>>, <<44013, 44013>>, <<64286, 64286>>,
    <<64434, 64450>>, <<65024, 65039>>, <<65043, 65043>>, <<65056, 65071>>,
    <<65106, 65106>>, <<65109, 65109>>, <<65279, 65279>>, <<65287, 65287>>,
    <<65294, 65294>>, <<65306, 65306>>, <<65342, 65342>>, <<65344, 65344>>,
    <<65392, 65392>>, <<65438, 65439>>, <<65507, 65507>>, <<65529, 65531>>,
    <<66045, 66045>>, <<66272, 66272>>, <<66422, 66426>>, <<67456, 67461>>,
    <<67463, 67504>>, <<67506, 67514>>, <<68097, 68099>>, <<68101, 68102>>,
    <<68108, 68111>>, <<68152, 68154>>, <<68159, 68159>>, <<68325, 68326>>,
    <<68900, 68903>>, <<69291, 69292>>, <<69446, 69456>>, <<69506, 69509>>,
    <<69633, 69633>>, <<69688, 69702>>, <<69744, 69744>>, <<69747, 69748>>,
    <<69759, 69761>>, <<69811, 69814>>, <<69817, 69818>>, <<69821, 69821>>,
    <<69826, 69826>>, <<69837, 69837>>, <<69888, 69890>>, <<69927, 69931>>,
    <<69933, 69940>>, <<70003, 70003>>, <<70016, 70017>>, <<70070, 70078>>,
    <<70089, 70092>>, <<70095, 70095>>, <<70191, 70193>>, <<70196, 70196>>,
    <<70198, 70199>>, <<70206, 70206>>, <<70367, 70367>>, <<70371, 70378>>,
    <<70400, 70401>>, <<70459, 70460>>, <<70464, 70464>>, <<70502, 70508>>,
    <<70512, 70516>>, <<70712, 70719>>, <<70722, 70724>>, <<70726, 70726>>,
    <<70750, 70750>>, <<70835, 70840>>, <<70842, 70842>>, <<70847, 70848>>,
    <<70850, 70851>>, <<71090, 71093>>, <<71100, 71101>>, <<71103, 71104>>,
    <<71132, 71133>>, <<71219, 71226>>, <<71229, 71229>>, <<71231, 71232>>,
    <<71339, 71339>>, <<71341, 71341>>, <<71344, 71349>>, <<71351, 71351>>,
    <<71453, 71455>>, <<71458, 71461>>, <<71463, 71467>>, <<71727, 71735>>,
    <<71737, 71738>>, <<71995, 71996>>, <<71998, 71998>>, <<72003, 72003>>,
    <<72148, 72151>>, <<72154, 72155>>, <<72160, 72160>>, <<72193, 72202>>,
    <<72243, 72248>>, <<72251, 72254>>, <<72263, 72263>>, <<72273, 72278>>,
    <<72281, 72283>>, <<72330, 72342>>, <<72344, 72345>>, <<72752, 72758>>,
    <<72760, 72765>>, <<72767, 72767>>, <<72850, 72871>>, <<72874, 72880>>,
    <<72882, 72883>>, <<72885, 72886>>, <<73009, 73014>>, <<73018, 73018>>,
    <<73020, 73021>>, <<73023, 73029>>, <<73031, 73031>>, <<73104, 73105>>,
    <<73109, 73109>>, <<73111, 73111>>, <<73459, 73460>>, <<78896, 78904>>,
    <<92912, 92916>>, <<92976, 92982>>, <<92992, 92995>>, <<94031, 94031>>,
    <<94095, 94111>>, <<94176, 94177>>, <<94179, 94180>>, <<110576, 110579>>,
    <<110581, 110587>>, <<110589, 110590>>, <<113821, 113822>>,
    <<113824, 113827>>, <<118528, 118573>>, <<118576, 118598>>,
    <<119143, 119145>>, <<119155, 119170>>, <<119173, 119179>>,
    <<119210, 119213>>, <<119362, 119364>>, <<121344, 121398>>,
    <<121403, 121452>>, <<121461, 121461>>, <<121476, 121476>>,
    <<121499, 121503>>, <<121505, 121519>>, <<122880, 122886>>,
    <<122888, 122904>>, <<122907, 122913>>, <<122915, 122916>>,
    <<122918, 122922>>, <<123184, 123197>>, <<123566, 123566>>,
    <<123628, 123631>>, <<125136, 125142>>, <<125252, 125259>>,
    <<127995, 127999>>, <<917505, 917505>>, <<917536, 917631>>,
    <<917760, 917999>> >>)

LowerRange(code, k) ==
    /\ LowerRanges[k][1] <= code
    /\ code <= LowerRanges[k][2]
    /\ (code - LowerRanges[k][1]) % LowerRanges[k][3] = 0

\* str.lower() on the character of this code point, other than the capital
\* sigma; U+0130 is the one character that becomes two
lower_code(code) ==
    IF code = 304 THEN "i" \o chr(775)
    ELSE IF \E k \in DOMAIN LowerRanges : LowerRange(code, k)
         THEN chr(code + LowerRanges[CHOOSE k \in DOMAIN LowerRanges : LowerRange(code, k)][4])
         ELSE chr(code)

\* the character of s that starts at i ("" past the end)
CharAt(s, i) == Slice(s, i, i + FirstLen(Slice(s, i, i + 9)) - 1)

\* the character of s that ends before i ("" at the start)
CharBefore(s, i) ==
    IF \E n \in 8..10 : i > n /\ TokenLen(Slice(s, i - n, i - 1)) = n
    THEN Slice(s, i - (CHOOSE n \in 8..10 : i > n /\ TokenLen(Slice(s, i - n, i - 1)) = n), i - 1)
    ELSE At(s, i - 1)

RECURSIVE cased_before(_, _)
RECURSIVE cased_after(_, _)

\* before i, passing over the case-ignorable characters, stands a cased character
cased_before(s, i) ==
    LET cased(c, code) ==
            IF c = "" THEN FALSE
            ELSE IF IsCaseIgnorable(code) THEN cased_before(s, i - Len(c))
            ELSE IsCased(code)
        seen(c) == cased(c, IF c = "" THEN 0 ELSE ord(c))
    IN  seen(CharBefore(s, i))

\* from i on, passing over the case-ignorable characters, stands a cased character
cased_after(s, i) ==
    LET cased(c, code) ==
            IF c = "" THEN FALSE
            ELSE IF IsCaseIgnorable(code) THEN cased_after(s, i + Len(c))
            ELSE IsCased(code)
        seen(c) == cased(c, IF c = "" THEN 0 ELSE ord(c))
    IN  seen(CharAt(s, i))

\* str.lower() on the character c that starts at i: a capital sigma (U+03A3)
\* that ends a word becomes the final sigma (U+03C2)
lower_char(s, i, c) ==
    IF Len(c) = 1 THEN LowerChar(c)
    ELSE IF ord(c) = 931
         THEN (IF cased_before(s, i) /\ ~cased_after(s, i + Len(c)) THEN chr(962) ELSE chr(963))
    ELSE lower_code(ord(c))

RECURSIVE lower_from(_, _)
lower_from(s, i) ==
    IF i > Len(s) THEN ""
    ELSE lower_char(s, i, CharAt(s, i)) \o lower_from(s, i + Len(CharAt(s, i)))

\* str.lower()
lower(s) == lower_from(s, 1)

RECURSIVE lstrip(_)
lstrip(s) ==
    IF s # "" /\ InStr(Char(s, 1), Whitespace) THEN lstrip(SubSeq(s, 2, Len(s)))
    ELSE IF Slice(s, 1, 8) \in WhitespaceTokens THEN lstrip(Slice(s, 9, Len(s)))
    ELSE s

RECURSIVE rstrip(_)
rstrip(s) ==
    IF s # "" /\ InStr(Char(s, Len(s)), Whitespace)
    THEN rstrip(SubSeq(s, 1, Len(s) - 1))
    ELSE IF Slice(s, Len(s) - 7, Len(s)) \in WhitespaceTokens
         THEN rstrip(Slice(s, 1, Len(s) - 8))
    ELSE s

strip(s) == rstrip(lstrip(s))

\* Python's `sub in s` on strings
str_in(sub, s) ==
    \E i \in 1..(Len(s) - Len(sub) + 1) : SubSeq(s, i, i + Len(sub) - 1) = sub

(***************************************************************************)
(* A tweepy Status, as far as the program reads it.  An attribute (or a    *)
(* dict key) is missing, None, or a string.                                *)
(***************************************************************************)
Missing == [kind |-> "missing", val |-> ""]
None    == [kind |-> "none",    val |-> ""]
Str(s)  == [kind |-> "str",     val |-> s]

\* a dict key holding a list, or not set
NoList   == [kind |-> "missing", val |-> <<>>]
List(xs) == [kind |-> "list",    val |-> xs]

NoEntities   == [kind |-> "missing", hashtags |-> NoList, urls |-> NoList]
NoneEntities == [kind |-> "none",    hashtags |-> NoList, urls |-> NoList]
Entities(hashtags, urls) == [kind |-> "dict", hashtags |-> hashtags, urls |-> urls]

Status(id, text, full_text, retweeted_status, entities) ==
    [id |-> id, text |-> text, full_text |-> full_text,
     retweeted_status |-> retweeted_status, entities |-> entities]

(***************************************************************************)
(* is_streaming_tweet (lines 89-125).  The result is "True" or "False", or *)
(* the name of the exception the call raises.                              *)
(***************************************************************************)
Raise(exc) == [kind |-> "raise", val |-> exc]

\* line 93 (and line 164): getattr(status, "full_text", status.text or "").
\* Python evaluates the default argument, status.text, before it calls getattr.
status_text(st) ==
    IF st.text.kind = "missing" THEN Raise("AttributeError")
    ELSE IF st.full_text.kind # "missing" THEN st.full_text
    ELSE IF st.text.kind = "none" THEN Str("")
    ELSE st.text

\* lines 105-107
keyword_rule(lowered) ==
    \E i \in DOMAIN KEYWORDS : str_in(lower(KEYWORDS[i]), lowered)

\* lines 110-115: "True", "pass" (no return) or the exception raised
hashtag_rule(st) ==
    IF st.entities.kind = "missing" THEN "pass"
    ELSE IF st.entities.kind = "none" THEN "AttributeError"
    ELSE LET hashtags == st.entities.hashtags.val
         IN  IF \E i \in DOMAIN hashtags : hashtags[i].kind = "missing"
             THEN "KeyError"
             ELSE IF \E i \in DOMAIN hashtags :
                        /\ hashtags[i].kind = "str"
                        /\ hashtags[i].val \in Range(HASHTAGS)
                  THEN "True"
                  ELSE "pass"

\* line 122 for the urls from the first on: u.get("expanded_url", "") is "" for a
\* missing key and None for a null one, and `service in None` raises TypeError
RECURSIVE scan_urls(_)
scan_urls(urls) ==
    IF urls = <<>> THEN "pass"
    ELSE LET u == Head(urls)
         IN  IF u.kind = "none" THEN "TypeError"
             ELSE IF \E i \in DOMAIN SERVICES : str_in(SERVICES[i], u.val)
                  THEN "True"
                  ELSE scan_urls(Tail(urls))

\* lines 118-123
url_rule(st) ==
    IF st.entities.kind = "missing" THEN "pass"
    ELSE IF st.entities.kind = "none" THEN "AttributeError"
    ELSE scan_urls(st.entities.urls.val)

is_streaming_tweet(st) ==
    LET text == status_text(st)
    IN  IF text.kind = "raise" THEN text.val
        ELSE IF text.kind = "none" THEN "AttributeError"   \* None.lower(), line 94
        ELSE IF startswith(strip(text.val), "@") THEN "False"
        ELSE IF st.retweeted_status THEN "False"
        ELSE IF keyword_rule(lower(text.val)) THEN "True"
        ELSE IF hashtag_rule(st) # "pass" THEN hashtag_rule(st)
        ELSE IF url_rule(st) # "pass" THEN url_rule(st)
        ELSE "False"

(***************************************************************************)
(* The dedup file: retweeted_ids.json (line 36).  Its content is a text;   *)
(* json.load (line 76) reads it and set(ids) (line 77) iterates what was   *)
(* read; json.dump(list(ids), f, ensure_ascii=False, indent=2) (line 86)   *)
(* writes it.                                                              *)
(*                                                                         *)
(* An element of the set is a Python value: an int, and, when the file     *)
(* was not written by this program, a str, a float, a bool or None.  The   *)
(* model writes such a value as the text json.dumps(value,                 *)
(* ensure_ascii=False) gives for it: 12 is "12", 1.5 is "1.5", True is     *)
(* "true", None is "null", 'ab' is "\"ab\"".  Python compares 1, 1.0 and   *)
(* True equal (py_eq).  In these texts a character that a TLA+ string      *)
(* cannot hold is written <u+xxxx>, its code point in hexadecimal.         *)
(* open(..., "r") hands "\r\n" and "\r" to json.load as "\n"; the three    *)
(* are the same to it: white space between values, an error in a string.   *)
(***************************************************************************)
\* ord(c) of a character below U+0020 that is written as itself or <u+xxxx>;
\* 32 for every other character
ControlCode(c) ==
    IF c = "\t" THEN 9
    ELSE IF c = "\n" THEN 10
    ELSE IF c = "\f" THEN 12
    ELSE IF c = "\r" THEN 13
    ELSE IF TokenLen(c) > 0 /\ hex_int(Slice(c, 4, Len(c) - 1)) < 32
         THEN hex_int(Slice(c, 4, Len(c) - 1))
         ELSE 32

\* json.dumps(c, ensure_ascii=False) of one character, without the quotes
EscapeChar(c) ==
    IF c = "\"" THEN "\\\""
    ELSE IF c = "\\" THEN "\\\\"
    ELSE IF c = "\n" THEN "\\n"
    ELSE IF c = "\r" THEN "\\r"
    ELSE IF c = "\t" THEN "\\t"
    ELSE IF c = "\f" THEN "\\f"
    ELSE IF ControlCode(c) = 8 THEN "\\b"
    ELSE IF ControlCode(c) < 32
         THEN LET h == int_hex(ControlCode(c)) IN "\\u" \o zeros(4 - Len(h)) \o h
         ELSE c

RECURSIVE Escape(_)
Escape(s) ==
    IF s = "" THEN ""
    ELSE EscapeChar(Slice(s, 1, FirstLen(s))) \o Escape(Slice(s, FirstLen(s) + 1, Len(s)))

\* json.dumps(s, ensure_ascii=False) of a str
py_str(s) == "\"" \o Escape(s) \o "\""

\* list(s) of a str, each character as the value it is
RECURSIVE py_chars(_)
py_chars(s) ==
    IF s = "" THEN <<>>
    ELSE <<py_str(Slice(s, 1, FirstLen(s)))>> \o py_chars(Slice(s, FirstLen(s) + 1, Len(s)))

\* s.lstrip("0")
lstrip_zeros(s) ==
    IF \A i \in 1..Len(s) : Char(s, i) = "0" THEN ""
    ELSE Slice(s, CHOOSE i \in 1..Len(s) :
                     Char(s, i) # "0" /\ \A k \in 1..(i - 1) : Char(s, k) = "0",
               Len(s))

\* s.rstrip("0")
rstrip_zeros(s) ==
    IF \A u \in 1..Len(s) : Char(s, Len(s) + 1 - u) = "0" THEN ""
    ELSE Slice(s, 1, Len(s) + 1
                     - (CHOOSE t \in 1..Len(s) :
                           /\ Char(s, Len(s) + 1 - t) # "0"
                           /\ \A u \in 1..(t - 1) : Char(s, Len(s) + 1 - u) = "0"))

(***************************************************************************)
(* float(text) and repr(float) (line 76 builds a float from a literal with *)
(* a fraction or an exponent, line 86 writes it with repr).  A float is a  *)
(* double: float() gives the double nearest to the literal, the even one   *)
(* of two equally near, inf from 2**1024 * (1 - 2**-54) on; repr gives the *)
(* fewest digits that float() reads back as the same double.  Both are     *)
(* computed here on naturals of any size: such a natural is the sequence   *)
(* of its digits in base 10000 (limbs), the lowest first, with no zero at  *)
(* the top; 0 is <<>>.                                                     *)
(***************************************************************************)
Limb(a, i) == IF 1 <= i /\ i <= Len(a) THEN a[i] ELSE 0

\* a without the zeros at its top
big_trim(a) ==
    IF \A i \in 1..Len(a) : a[i] = 0 THEN <<>>
    ELSE SubSeq(a, 1, Len(a) + 1
                      - (CHOOSE t \in 1..Len(a) :
                            /\ a[Len(a) + 1 - t] # 0
                            /\ \A u \in 1..(t - 1) : a[Len(a) + 1 - u] = 0))

\* int(s) for a text of digits of any length
big_int(s) ==
    big_trim([i \in 1..((Len(s) + 3) \div 4) |->
                 str_int(Slice(s, Len(s) - 4 * i + 1, Len(s) - 4 * i + 4))])

\* the limbs hi down to lo as text
RECURSIVE big_digits(_, _, _)
big_digits(a, lo, hi) ==
    IF lo > hi THEN ""
    ELSE IF lo = hi THEN zeros(4 - Len(int_str(a[lo]))) \o int_str(a[lo])
    ELSE big_digits(a, ((lo + hi) \div 2) + 1, hi) \o big_digits(a, lo, (lo + hi) \div 2)

\* str(a)
big_str(a) ==
    IF a = <<>> THEN "0" ELSE int_str(a[Len(a)]) \o big_digits(a, 1, Len(a) - 1)

add_at(a, b, i) == Limb(a, i) + Limb(b, i)

\* a + b: the carry into limb i comes from the nearest limb below i whose sum
\* is not 9999
big_add(a, b) ==
    big_trim([i \in 1..((IF Len(a) > Len(b) THEN Len(a) ELSE Len(b)) + 1) |->
        (add_at(a, b, i)
         + (IF \A u \in 1..(i - 1) : add_at(a, b, i - u) = 9999 THEN 0
            ELSE IF add_at(a, b, i - (CHOOSE t \in 1..(i - 1) :
                                         /\ add_at(a, b, i - t) # 9999
                                         /\ \A u \in 1..(t - 1) : add_at(a, b, i - u) = 9999))
                    >= 10000
                 THEN 1
                 ELSE 0))
        % 10000])

sub_at(a, b, i) == Limb(a, i) - Limb(b, i)

\* a - b for a >= b: limb i lends to the nearest limb below it whose
\* difference is not 0, when that difference is below 0
big_sub(a, b) ==
    big_trim([i \in 1..Len(a) |->
        (sub_at(a, b, i) + 10000
         - (IF \A u \in 1..(i - 1) : sub_at(a, b, i - u) = 0 THEN 0
            ELSE IF sub_at(a, b, i - (CHOOSE t \in 1..(i - 1) :
                                         /\ sub_at(a, b, i - t) # 0
                                         /\ \A u \in 1..(t - 1) : sub_at(a, b, i - u) = 0))
                    < 0
                 THEN 1
                 ELSE 0))
        % 10000])

\* -1, 0, 1 as a < b, a = b, a > b
big_cmp(a, b) ==
    IF Len(a) < Len(b) THEN -1
    ELSE IF Len(a) > Len(b) THEN 1
    ELSE IF \A u \in 1..Len(a) : a[Len(a) + 1 - u] = b[Len(a) + 1 - u] THEN 0
    ELSE IF sub_at(a, b, Len(a) + 1
                         - (CHOOSE t \in 1..Len(a) :
                               /\ sub_at(a, b, Len(a) + 1 - t) # 0
                               /\ \A u \in 1..(t - 1) : sub_at(a, b, Len(a) + 1 - u) = 0))
            < 0
         THEN -1
         ELSE 1

\* a * c for an int c from 0 to 10000: the low halves of the products of the
\* limbs plus the high halves one limb up
big_mul(a, c) ==
    big_add([i \in 1..Len(a) |-> (a[i] * c) % 10000],
            [i \in 1..(Len(a) + 1) |-> IF i = 1 THEN 0 ELSE (a[i - 1] * c) \div 10000])

\* a * 2^n
RECURSIVE big_shl(_, _)
big_shl(a, n) ==
    IF a = <<>> THEN <<>>
    ELSE IF n >= 13 THEN big_shl(big_mul(a, 8192), n - 13)
    ELSE big_mul(a, 2^n)

\* a * 5^n
RECURSIVE big_mul5(_, _)
big_mul5(a, n) ==
    IF a = <<>> THEN <<>>
    ELSE IF n >= 5 THEN big_mul5(big_mul(a, 3125), n - 5)
    ELSE big_mul(a, 5^n)

\* a * 10000^n
big_shift(a, n) == IF a = <<>> THEN <<>> ELSE [i \in 1..n |-> 0] \o a

\* a * 10^n
big_mul10(a, n) == big_shift(big_mul(a, 10^(n % 4)), n \div 4)

\* a * b for b of a few limbs
RECURSIVE big_times(_, _)
big_times(a, b) ==
    IF b = <<>> THEN <<>>
    ELSE big_add(big_mul(a, Head(b)), big_shift(big_times(a, Tail(b)), 1))

RECURSIVE big_quot(_, _, _, _)
big_quot(a, i, c, r) ==
    IF i < 1 THEN <<>>
    ELSE big_quot(a, i - 1, c, (r * 10000 + a[i]) % c) \o <<(r * 10000 + a[i]) \div c>>

\* a \div c for an int c from 1 to 32768 and a of a few limbs
big_div(a, c) == big_trim(big_quot(a, Len(a), c, 0))

\* a \div 2^n for a of a few limbs
RECURSIVE big_shr(_, _)
big_shr(a, n) ==
    IF a = <<>> THEN <<>>
    ELSE IF n >= 15 THEN big_shr(big_div(a, 32768), n - 15)
    ELSE big_div(a, 2^n)

\* a.bit_length() for a of a few limbs
RECURSIVE big_bits(_)
big_bits(a) ==
    IF a = <<>> THEN 0
    ELSE IF Len(a) > 1 THEN 13 + big_bits(big_div(a, 8192))
    ELSE 1 + big_bits(big_div(a, 2))

\* the largest q from lo to hi with d * q <= r
RECURSIVE big_fit(_, _, _, _)
big_fit(r, d, lo, hi) ==
    IF lo = hi THEN lo
    ELSE IF big_cmp(big_mul(d, (lo + hi + 1) \div 2), r) <= 0
         THEN big_fit(r, d, (lo + hi + 1) \div 2, hi)
         ELSE big_fit(r, d, lo, ((lo + hi + 1) \div 2) - 1)

RECURSIVE big_divide(_, _, _)
big_divide_step(r, d, j, q) ==
    big_divide(big_sub(r, big_mul(big_shift(d, j), q)), d, j - 1) \o <<q>>

\* r \div d for r < d * 10000^(j + 1), limb j first found
big_divide(r, d, j) ==
    IF j < 0 THEN <<>>
    ELSE big_divide_step(r, d, j, big_fit(r, big_shift(d, j), 0, 9999))

Two52 == big_int("4503599627370496")

\* The double x * 2^b0 rounds to, for x of 54 bits or more; exact says that x
\* is the number itself and not cut off.  A double is [m, b], standing for
\* m * 2^b, with 2^52 <= m < 2^53 and b >= -1074, or m < 2^52 and b = -1074
\* (subnormal, zero); b > 971 is inf.  53 bits of x stay, fewer when the
\* exponent would go below -1074; the bits that go round half to even.
dbl_round(x, exact, b0) ==
    LET carried(m, b) ==
            IF m = big_mul(Two52, 2) THEN [m |-> Two52, b |-> b + 1]
            ELSE [m |-> m, b |-> b]
        rounded(y, m0, b) ==
            carried(IF /\ Limb(y, 1) % 2 = 1
                       /\ \/ ~exact
                          \/ big_shl(y, b - b0 - 1) # x
                          \/ Limb(m0, 1) % 2 = 1
                    THEN big_add(m0, <<1>>)
                    ELSE m0,
                    b)
        halved(y, b) == rounded(y, big_div(y, 2), b)
        shifted(b) == halved(big_shr(x, b - b0 - 1), b)
        placed(b) == shifted(IF b < -1074 THEN -1074 ELSE b)
    IN  placed(b0 + big_bits(x) - 53)

\* p / q as a double; 2^b0 is below p / q by 55 to 63 bits
dbl_scale(p, q, b0) ==
    LET rounded(pp, qq, x) == dbl_round(x, big_times(qq, x) = pp, b0)
        divided(pp, qq) ==
            rounded(pp, qq, big_trim(big_divide(pp, qq, Len(pp) - Len(qq))))
    IN  divided(IF b0 < 0 THEN big_shl(p, -b0) ELSE p,
                IF b0 > 0 THEN big_shl(q, b0) ELSE q)

\* an exponent b0 with 2^(b0 + 55) <= p / q < 2^(b0 + 64) for p of dp decimal
\* digits and q = 10^n: log2(10) lies between 3.321 and 3.322
binary_guess(dp, n) ==
    (((dp - 1) * 3321) \div 1000) - (((n * 3322) \div 1000) + 1) - 55

\* the double nearest to 0.digs * 10^decpt, for digs without zeros at its ends
to_double(digs, decpt) ==
    LET scaled(up, down) ==
            dbl_scale(big_mul10(big_int(digs), up), big_mul10(<<1>>, down),
                      binary_guess(Len(digs) + up, down))
    IN  scaled(IF decpt > Len(digs) THEN decpt - Len(digs) ELSE 0,
               IF decpt < Len(digs) THEN Len(digs) - decpt ELSE 0)

\* -1, 0, 1 as a < b, a = b, a > b for texts of digits of one length
cmp_digits(a, b) ==
    LET differ(i) ==
            IF IndexIn(Char(a, i), Digits) < IndexIn(Char(b, i), Digits) THEN -1 ELSE 1
    IN  IF a = b THEN 0
        ELSE differ(CHOOSE i \in 1..Len(a) :
                        /\ Char(a, i) # Char(b, i)
                        /\ \A k \in 1..(i - 1) : Char(a, k) = Char(b, k))

\* the text of digits s plus one, of the length of s: s begins with a 0
inc_digits(s) ==
    LET raised(i) ==
            Slice(s, 1, i - 1) \o Char(Digits, IndexIn(Char(s, i), Digits) + 1)
            \o zeros(Len(s) - i)
    IN  raised(Len(s) + 1
               - (CHOOSE t \in 1..Len(s) :
                     /\ Char(s, Len(s) + 1 - t) # "9"
                     /\ \A u \in 1..(t - 1) : Char(s, Len(s) + 1 - u) = "9"))

\* The number of the fewest digits, n or more, from lo to hi (the two included
\* when closed) that is nearest to v; lo, v and hi are texts of one length that
\* begin with a 0.  Of the two numbers of n digits around v the nearer one is
\* taken when both lie in the range, the even one when both are as near.
RECURSIVE shortest(_, _, _, _, _)
shortest(lo, v, hi, closed, n) ==
    LET picked(down, up, okdown, okup, half) ==
            IF ~okdown /\ ~okup THEN shortest(lo, v, hi, closed, n + 1)
            ELSE IF ~okup THEN down
            ELSE IF ~okdown THEN up
            ELSE IF half < 0 THEN down
            ELSE IF half > 0 THEN up
            ELSE IF IndexIn(Char(down, n), Digits) % 2 = 1 THEN down
            ELSE up
        around(down, up) ==
            picked(down, up,
                   cmp_digits(down, lo) >= (IF closed THEN 0 ELSE 1),
                   cmp_digits(hi, up) >= (IF closed THEN 0 ELSE 1),
                   cmp_digits(Slice(v, n + 1, Len(v)), "5" \o zeros(Len(v) - n - 1)))
        cut(down, rest) == around(down \o rest, inc_digits(down) \o rest)
    IN  IF n >= Len(v) THEN v ELSE cut(Slice(v, 1, n), zeros(Len(v) - n))

\* repr of the number 0.digs * 10^decpt for digs without zeros at its ends: in
\* exponent form below 1e-4 and from 1e16
float_format(digs, decpt) ==
    IF decpt < -3 \/ decpt > 16
    THEN Char(digs, 1)
         \o (IF Len(digs) > 1 THEN "." \o Slice(digs, 2, Len(digs)) ELSE "")
         \o "e" \o (IF decpt < 1 THEN "-" ELSE "+")
         \o (IF decpt - 1 < 10 /\ 1 - decpt < 10 THEN "0" ELSE "")
         \o int_str(IF decpt < 1 THEN 1 - decpt ELSE decpt - 1)
    ELSE IF decpt <= 0 THEN "0." \o zeros(0 - decpt) \o digs
    ELSE IF Len(digs) <= decpt THEN digs \o zeros(decpt - Len(digs)) \o ".0"
    ELSE Slice(digs, 1, decpt) \o "." \o Slice(digs, decpt + 1, Len(digs))

\* repr(x) of the double x, without its sign.  In units of 2^(b - 2), which is
\* a natural or, for b < 2, 5^(2 - b) / 10^(2 - b), x is v = 4 * m, and the
\* numbers float() reads as x lie from lo to hi, halfway to the doubles next
\* to x: the one below is half as far as the one above when m is 2^52.  The
\* ends are read as x when m is even.
dbl_repr(d) ==
    LET formatted(c) ==
            float_format(rstrip_zeros(c), Len(c) + (IF d.b < 2 THEN d.b - 2 ELSE 0))
        padded(lo, v, hi, len) ==
            formatted(lstrip_zeros(
                shortest(zeros(len - Len(lo)) \o lo, zeros(len - Len(v)) \o v,
                         zeros(len - Len(hi)) \o hi, Limb(d.m, 1) % 2 = 0,
                         len - Len(v) + 1)))
        texts(lo, v, hi) == padded(lo, v, hi, Len(hi) + 1)
        ranged(lo, v, hi) == texts(big_str(lo), big_str(v), big_str(hi))
        scaled(unit, v) ==
            ranged(big_times(unit, big_sub(v, IF d.m = Two52 /\ d.b > -1074
                                              THEN <<1>>
                                              ELSE <<2>>)),
                   big_times(unit, v),
                   big_times(unit, big_add(v, <<2>>)))
    IN  IF d.m = <<>> THEN "0.0"
        ELSE IF d.b > 971 THEN "Infinity"
        ELSE scaled(IF d.b >= 2 THEN big_shl(<<1>>, d.b - 2) ELSE big_mul5(<<1>>, 2 - d.b),
                    big_mul(d.m, 4))

\* a + e, or a - e when neg, for the int a and the natural e that the text
\* of digits `digs` writes ("" writes 0).  e has no limit, so the sum is made
\* in two parts of five digits; a sum beyond -100000 or 100000 is given as
\* -1000000 or 1000000.
decimal_point(a, neg, digs) ==
    LET sum(hi, lo) ==
            IF hi > 1 THEN 1000000
            ELSE IF hi < -2 THEN -1000000
            ELSE hi * 100000 + lo
        signed(sign, e) ==
            IF Len(e) > 10 THEN sign * 1000000
            ELSE sum((a \div 100000) + sign * str_int(Slice(e, 1, Len(e) - 5)),
                     (a % 100000) + sign * str_int(Slice(e, Len(e) - 4, Len(e))))
    IN  signed(IF neg THEN -1 ELSE 1, lstrip_zeros(digs))

\* repr(float(text)) for the literal with integer part ip, fraction fp and
\* exponent eneg, edigs (its sign and its digits, of any length).  The literal
\* is 0.digs * 10^decpt, so from 10^(decpt - 1) to 10^decpt: inf past 310,
\* 0.0 below -324.  Of up to 15 digits it is its own repr; past 800 digits the
\* further ones do not decide which double it is (halfway between two doubles
\* lies a number of fewer digits), only that they are not all 0.
float_repr(neg, ip, fp, eneg, edigs) ==
    LET shown(digs, decpt) ==
            IF digs = "" THEN "0.0"
            ELSE IF decpt > 310 THEN "Infinity"
            ELSE IF decpt < -324 THEN "0.0"
            ELSE IF Len(digs) <= 15 /\ -290 < decpt /\ decpt < 290
                 THEN float_format(digs, decpt)
            ELSE dbl_repr(to_double(IF Len(digs) > 800 THEN Slice(digs, 1, 800) \o "1"
                                    ELSE digs, decpt))
        stripped(s) ==
            shown(rstrip_zeros(s), decimal_point(Len(s) - Len(fp), eneg, edigs))
    IN  (IF neg THEN "-" ELSE "") \o stripped(lstrip_zeros(ip \o fp))

\* int(x) as a text, for the float x written `text` in exponent form, 1e16 or
\* more: the digits of `text` are a natural that rounds to x
float_int(text) ==
    LET value(d) == big_str(big_shl(d.m, d.b))
        parts(digs, ex) ==
            value(dbl_round(big_mul10(big_int(digs), ex + 1 - Len(digs)), TRUE, 0))
        split(e) ==
            parts(Slice(text, 1, 1) \o Slice(text, 3, e - 1),
                  str_int(Slice(text, e + 2, Len(text))))
    IN  split(IndexIn("e", text))

\* the value Python compares by: True is 1, False is 0, a float with an
\* integral value is that int, every other value is itself
py_key(v) ==
    IF v = "true" THEN "1"
    ELSE IF v = "false" THEN "0"
    ELSE IF ~InStr(At(v, 1), "-0123456789") \/ ~InStr(At(v, Len(v)), Digits) THEN v
    ELSE IF Len(v) > 2 /\ Slice(v, Len(v) - 1, Len(v)) = ".0"
         THEN IF Slice(v, 1, Len(v) - 2) = "-0" THEN "0" ELSE Slice(v, 1, Len(v) - 2)
    ELSE IF InStr("e", v) /\ InStr("+", v)
         THEN (IF At(v, 1) = "-" THEN "-" ELSE "")
              \o float_int(IF At(v, 1) = "-" THEN Slice(v, 2, Len(v)) ELSE v)
    ELSE v

\* a == b on two values
py_eq(a, b) == py_key(a) = py_key(b)

\* v in ids
py_in(v, ids) == \E e \in ids : py_eq(e, v)

\* set(xs): of the elements that compare equal the first stays
RECURSIVE py_set_of(_, _)
py_set_of(xs, acc) ==
    IF xs = <<>> THEN acc
    ELSE py_set_of(Tail(xs), IF py_in(Head(xs), acc) THEN acc ELSE acc \cup {Head(xs)})

py_set(xs) == py_set_of(xs, {})

(***************************************************************************)
(* json.load: the scanner of the json module.  A scanned value is          *)
(* [ok, next, kind, text, items]: next is the index after the value, text  *)
(* the value as written above (for a str its characters, not yet quoted),  *)
(* items the elements of a list or the keys of a dict; an element that is  *)
(* itself a list or a dict is written "[" or "{".                          *)
(***************************************************************************)
NoValue == [ok |-> FALSE, next |-> 0, kind |-> "", text |-> "", items |-> <<>>]
Value(next, kind, text, items) ==
    [ok |-> TRUE, next |-> next, kind |-> kind, text |-> text, items |-> items]

RECURSIVE skip_ws(_, _)
skip_ws(s, i) ==
    IF InStr(At(s, i), " \t\n\r") /\ i <= Len(s) THEN skip_ws(s, i + 1) ELSE i

\* the index after the digits that begin at i
digits_end(s, i) ==
    IF i > Len(s) THEN i
    ELSE CHOOSE j \in i..(Len(s) + 1) :
             /\ j > Len(s) \/ ~InStr(Char(s, j), Digits)
             /\ \A k \in i..(j - 1) : InStr(Char(s, k), Digits)

\* sys.get_int_max_str_digits(): int(text) raises ValueError on more digits
IntMaxStrDigits == 4300

\* NUMBER_RE of json.scanner: (-?(?:0|[1-9]\d*))(\.\d+)?([eE][-+]?\d+)?
scan_number(s, i) ==
    LET neg == At(s, i) = "-"
        j0 == IF neg THEN i + 1 ELSE i
        j1 == IF At(s, j0) = "0" THEN j0 + 1 ELSE digits_end(s, j0)
        hasfrac == At(s, j1) = "." /\ digits_end(s, j1 + 1) > j1 + 1
        j2 == IF hasfrac THEN digits_end(s, j1 + 1) ELSE j1
        e0 == IF At(s, j2) \in {"e", "E"}
              THEN (IF At(s, j2 + 1) \in {"+", "-"} THEN j2 + 2 ELSE j2 + 1)
              ELSE 0
        hasexp == e0 > 0 /\ digits_end(s, e0) > e0
        j3 == IF hasexp THEN digits_end(s, e0) ELSE j2
        ip == Slice(s, j0, j1 - 1)
        fp == IF hasfrac THEN Slice(s, j1 + 1, j2 - 1) ELSE ""
        eneg == hasexp /\ At(s, e0 - 1) = "-"
        edigs == IF hasexp THEN Slice(s, e0, j3 - 1) ELSE ""
    IN  IF j1 = j0 THEN NoValue
        ELSE IF hasfrac \/ hasexp THEN Value(j3, "float", float_repr(neg, ip, fp, eneg, edigs), <<>>)
        ELSE IF Len(ip) > IntMaxStrDigits THEN NoValue   \* int(text) raises ValueError
        ELSE Value(j3, "int", IF neg /\ ip # "0" THEN "-" \o ip ELSE ip, <<>>)

\* py_scanstring with strict=True, from the character after the opening quote
RECURSIVE scan_string(_, _, _)
scan_string(s, i, acc) ==
    LET c == At(s, i)
        e == At(s, i + 1)
        rest == Slice(s, i, Len(s))
        h == Slice(s, i + 2, i + 5)
        h2 == Slice(s, i + 8, i + 11)
        hi == hex_int(h)
        lo == hex_int(h2)
    IN  IF c = "" THEN NoValue
        ELSE IF c = "\"" THEN Value(i + 1, "str", acc, <<>>)
        ELSE IF c = "\\"
             THEN IF e \in {"\"", "\\", "/"} THEN scan_string(s, i + 2, acc \o e)
                  ELSE IF e = "b" THEN scan_string(s, i + 2, acc \o chr(8))
                  ELSE IF e = "f" THEN scan_string(s, i + 2, acc \o "\f")
                  ELSE IF e = "n" THEN scan_string(s, i + 2, acc \o "\n")
                  ELSE IF e = "r" THEN scan_string(s, i + 2, acc \o "\r")
                  ELSE IF e = "t" THEN scan_string(s, i + 2, acc \o "\t")
                  ELSE IF e = "u" /\ Len(h) = 4 /\ IsHex(h)
                       THEN IF /\ 55296 <= hi /\ hi <= 56319
                               /\ Slice(s, i + 6, i + 7) = "\\u"
                               /\ Len(h2) = 4 /\ IsHex(h2)
                               /\ 56320 <= lo /\ lo <= 57343
                            THEN scan_string(s, i + 12,
                                     acc \o chr(65536 + (hi - 55296) * 1024 + (lo - 56320)))
                            ELSE scan_string(s, i + 6, acc \o chr(hi))
                  ELSE NoValue
        ELSE IF ControlCode(Slice(rest, 1, FirstLen(rest))) < 32 THEN NoValue
        ELSE IF c = "<" /\ TokenLen(rest) = 0 THEN scan_string(s, i + 1, acc \o chr(60))
        ELSE scan_string(s, i + 1, acc \o c)

\* what set(ids) gets from an element of a list
Item(v) ==
    IF v.kind = "list" THEN "["
    ELSE IF v.kind = "dict" THEN "{"
    ELSE IF v.kind = "str" THEN py_str(v.text)
    ELSE v.text

\* The containers json.load may open inside one another.  The scanner of
\* json (c_make_scanner) enters one level of the interpreter's recursion for
\* each array or object it opens, and raises RecursionError when the levels
\* in use reach sys.getrecursionlimit(), 1000.  At line 76 the frames of the
\* module, main, load_retweeted_ids, json.load, json.loads, decode and
\* raw_decode are in use: the 993rd container raises (CPython 3.11).  So does
\* the call of parse_constant on NaN, Infinity or -Infinity inside 992
\* containers, which takes a level as well; no other value does.
MaxNesting == 992

\* In the scanning operators d is the number of containers open around the
\* value that is scanned.
RECURSIVE scan_once(_, _, _)
RECURSIVE scan_array(_, _, _, _)
RECURSIVE scan_object(_, _, _, _)

\* JSONArray after the element v: "]" ends the array, "," goes on
array_next(s, j, acc, v, d) ==
    IF At(s, j) = "]" THEN Value(j + 1, "list", "", Append(acc, Item(v)))
    ELSE IF At(s, j) = "," THEN scan_array(s, skip_ws(s, j + 1), Append(acc, Item(v)), d)
    ELSE NoValue

array_item(s, acc, v, d) ==
    IF v.ok THEN array_next(s, skip_ws(s, v.next), acc, v, d) ELSE NoValue

\* JSONArray, from the first element on
scan_array(s, i, acc, d) == array_item(s, acc, scan_once(s, i, d), d)

\* JSONObject after the value v of the key: "}" ends the object, "," goes on
object_next(s, m, keys, v, d) ==
    IF ~v.ok THEN NoValue
    ELSE IF At(s, m) = "}" THEN Value(m + 1, "dict", "", keys)
    ELSE IF At(s, m) = "," THEN scan_object(s, skip_ws(s, m + 1), keys, d)
    ELSE NoValue

object_value(s, keys, v, d) == object_next(s, skip_ws(s, v.next), keys, v, d)

object_colon(s, j, acc, key, d) ==
    IF At(s, j) = ":"
    THEN object_value(s, Append(acc, py_str(key.text)),
                      scan_once(s, skip_ws(s, j + 1), d), d)
    ELSE NoValue

object_key(s, acc, key, d) ==
    IF key.ok THEN object_colon(s, skip_ws(s, key.next), acc, key, d) ELSE NoValue

\* JSONObject, from the quote that opens the first key on
scan_object(s, i, acc, d) ==
    IF At(s, i) = "\"" THEN object_key(s, acc, scan_string(s, i + 1, ""), d) ELSE NoValue

\* the literals of scan_once: null, true, false, a number, NaN and the
\* infinities; for the last three the scanner calls parse_constant, which
\* raises RecursionError inside MaxNesting containers
scan_literal(s, i, number, d) ==
    IF Slice(s, i, i + 3) = "null" THEN Value(i + 4, "none", "null", <<>>)
    ELSE IF Slice(s, i, i + 3) = "true" THEN Value(i + 4, "bool", "true", <<>>)
    ELSE IF Slice(s, i, i + 4) = "false" THEN Value(i + 5, "bool", "false", <<>>)
    ELSE IF number.ok THEN number
    ELSE IF d >= MaxNesting THEN NoValue
    ELSE IF Slice(s, i, i + 2) = "NaN" THEN Value(i + 3, "float", "NaN", <<>>)
    ELSE IF Slice(s, i, i + 7) = "Infinity" THEN Value(i + 8, "float", "Infinity", <<>>)
    ELSE IF Slice(s, i, i + 8) = "-Infinity" THEN Value(i + 9, "float", "-Infinity", <<>>)
    ELSE NoValue

\* the container that c opens at depth d, from j on; none (RecursionError) when
\* MaxNesting containers are open already
scan_open(s, c, j, d) ==
    IF d >= MaxNesting THEN NoValue
    ELSE IF c = "{"
         THEN IF At(s, j) = "}" THEN Value(j + 1, "dict", "", <<>>)
              ELSE scan_object(s, j, <<>>, d + 1)
    ELSE IF At(s, j) = "]" THEN Value(j + 1, "list", "", <<>>)
    ELSE scan_array(s, j, <<>>, d + 1)

\* scan_once of json.scanner
scan_once(s, i, d) ==
    IF At(s, i) = "\"" THEN scan_string(s, i + 1, "")
    ELSE IF At(s, i) \in {"{", "["} THEN scan_open(s, At(s, i), skip_ws(s, i + 1), d)
    ELSE scan_literal(s, i, scan_number(s, i), d)

\* JSONDecoder.decode: the value, unless text follows it ("Extra data")
decode(content, v) ==
    IF v.ok /\ skip_ws(content, v.next) = Len(content) + 1 THEN v ELSE NoValue

\* line 76: json.load(f); ok is FALSE when it raises JSONDecodeError, or
\* ValueError or RecursionError from the scanner
json_load(content) == decode(content, scan_once(content, skip_ws(content, 1), 0))

\* line 77: what set(ids) iterates, [ok, val]; ok is FALSE when it raises
\* TypeError: ids is not iterable, or an element is a list or a dict
py_iter(ids) ==
    IF ~ids.ok THEN [ok |-> FALSE, val |-> <<>>]
    ELSE IF ids.kind \in {"list", "dict"}
         THEN [ok |-> \A k \in DOMAIN ids.items : ids.items[k] \notin {"[", "{"},
               val |-> ids.items]
    ELSE IF ids.kind = "str" THEN [ok |-> TRUE, val |-> py_chars(ids.text)]
    ELSE [ok |-> FALSE, val |-> <<>>]

Absent == [exists |-> FALSE, content |-> ""]
FileOf(content) == [exists |-> TRUE, content |-> content]

\* the text has a UTF-8 encoding: it holds no surrogate (U+D800 to U+DFFF)
Encodable(text) ==
    \A i \in 1..Len(text) :
        TokenLen(Slice(text, i, i + 7)) = 8 =>
            hex_int(Slice(text, i + 3, i + 6)) \notin 55296..57343

\* f.read() of line 76 for a file opened with encoding="utf-8": a content that
\* holds a surrogate stands for bytes that are no UTF-8, and the read raises
\* UnicodeDecodeError
read(content) == IF Encodable(content) THEN json_load(content) ELSE NoValue

\* lines 76-77 raise on this content
load_raises(content) == ~py_iter(read(content)).ok

\* lines 71-80: the set of what was iterated, the empty set when the file is
\* absent or a line raised
load_retweeted_ids(f) ==
    LET loaded(it) == IF it.ok THEN py_set(it.val) ELSE {}
    IN  IF f.exists THEN loaded(py_iter(read(f.content))) ELSE {}

\* list(ids): the elements of the set in the order the set iterates them, which
\* the language leaves open
Orderings(ids) ==
    { xs \in [1..Cardinality(ids) -> ids] : Range(xs) = ids }

\* json_items with the item separator left out
RECURSIVE json_items_unseparated(_)
json_items_unseparated(xs) ==
    IF xs = <<>> THEN <<>>
    ELSE <<"\n  " \o Head(xs)>> \o json_items_unseparated(Tail(xs))

\* the chunks of the items that follow the first
RECURSIVE json_items(_)
json_items(xs) ==
    IF xs = <<>> THEN <<>>
    ELSE <<",\n  " \o Head(xs)>> \o json_items(Tail(xs))

\* json.dump(xs, f, ensure_ascii=False, indent=2) hands the text to f.write in
\* chunks, one call for each: the bracket with the first item, each further
\* item with its separator, the line end, the closing bracket
json_chunks(xs) ==
    IF xs = <<>> THEN <<"[]">>
    ELSE <<"[\n  " \o Head(xs)>> \o json_items(Tail(xs)) \o <<"\n", "]">>

\* the chunks f.write took before the first it cannot encode
RECURSIVE written(_)
written(chunks) ==
    IF chunks = <<>> \/ ~Encodable(Head(chunks)) THEN <<>>
    ELSE <<Head(chunks)>> \o written(Tail(chunks))

RECURSIVE join(_)
join(chunks) == IF chunks = <<>> THEN "" ELSE Head(chunks) \o join(Tail(chunks))

\* line 86 on the list xs: `text` is what f.write took; the call returns (ok)
\* or raises UnicodeEncodeError from the f.write of a chunk that holds a surrogate
json_dump(xs) ==
    [ok   |-> \A i \in DOMAIN xs : Encodable(xs[i]),
     text |-> join(written(json_chunks(xs)))]

\* lines 83-86, for the list `xs` that list(ids) produced: open(..., "w") cuts
\* the file, json.dump writes, and the end of the with block flushes what was
\* written, also when json.dump raised
save_retweeted_ids(xs) ==
    [ok |-> json_dump(xs).ok, file |-> FileOf(json_dump(xs).text)]

(***************************************************************************)
(* What the outside supplies: the environment variables, and the posts the *)
(* timelines can hold.  A post is immutable: an id always carries the same *)
(* Status.                                                                 *)
(***************************************************************************)
\* runs of the process that the model follows
MaxRuns == 2

\* longest timeline a fetch returns (the program asks for count=10, line 137)
MaxPosts == 2

Truthy(v) == v.kind = "str" /\ v.val # ""

EnvValues == {None, Str(""), Str("secret")}

Envs == [{"X_API_KEY", "X_API_SECRET", "X_ACCESS_TOKEN", "X_ACCESS_TOKEN_SECRET"}
            -> EnvValues]

\* load_env with X_ACCESS_TOKEN_SECRET left out of the test of line 49
load_env_three(env) ==
    IF \A k \in DOMAIN env \ {"X_ACCESS_TOKEN_SECRET"} : Truthy(env[k])
    THEN "ok"
    ELSE "RuntimeError"

\* lines 41-52: "ok", or the exception raised
load_env(env) ==
    IF \A k \in DOMAIN env : Truthy(env[k]) THEN "ok" ELSE "RuntimeError"

\* 1: a keyword in the text; 2: a configured hashtag; 3: a reply that holds a
\* keyword; 4: a post fetched in extended mode whose payload has full_text and
\* no text attribute
Posts ==
    { Status(1, Str("<tsugi><no><hai><shin><ya><ru><yo>"), Missing, FALSE, NoEntities),
      Status(2, Str("<ima><hi><ha><ten><ki><ga><i><i><ne>"), Missing, FALSE,
             Entities(List(<<Str("CORO<hai><shin>")>>), List(<<>>))),
      Status(3, Str("@someone <hai><shin><o><tsuka><re> <tsugi><no><hai><shin>"),
             Missing, FALSE, NoEntities),
      Status(4, Missing, Str("<hai><shin><ha><ji><ma><ru><yo> twitch.tv/aomishibi"),
             FALSE, Entities(List(<<>>), List(<<>>))) }

PostIds == { p.id : p \in Posts }

Timelines == UNION { [1..n -> Posts] : n \in 0..MaxPosts }

\* the dedup file before the first run: not there, left by an earlier run, or
\* left empty by a save that did not finish
InitFiles == { Absent, save_retweeted_ids(<<"1">>).file, FileOf("") }

NoStatus == Status(0, Missing, Missing, FALSE, NoEntities)

(***************************************************************************)
(* main (lines 168-179) and fetch_and_rt_for_user (lines 128-165)          *)
(***************************************************************************)
Init ==
    /\ file \in InitFiles
    /\ pc = "start"
    /\ run = 1
    /\ already_rt_ids = {}
    /\ user = 0
    /\ statuses = <<>>
    /\ pos = 0
    /\ error = ""
    /\ rt_success = [id \in PostIds |-> 0]
    /\ rt_failed = {}
    /\ run_calls = {}
    /\ fetch_failed = {}
    /\ saves = 0
    /\ file_at_start = file
    /\ file_at_init = file
    /\ survives = TRUE
    /\ did = {}
    /\ log_lines = 0
    /\ classify_calls = 0
    /\ rt_calls = [id \in PostIds |-> 0]
    /\ ok_run = {}
    /\ prev_failed = {}
    /\ fetched_ids = {}
    /\ invoked = <<>>
    /\ handled = <<>>
    /\ pending = 0
    /\ missing = {}
    /\ status = NoStatus
    /\ result = "unused"

classifier_vars == <<status, result>>
history_vars == <<rt_success, rt_failed, run_calls, fetch_failed, saves,
                  file_at_start, file_at_init, survives>>
audit_vars == <<did, log_lines, classify_calls, rt_calls, ok_run, prev_failed,
                fetched_ids, invoked, handled, pending>>

\* CreateApiClient with the exception of line 66 caught and reported: the run
\* goes on with the refused credentials
CreateApiClientUnverified ==
    /\ pc = "start"
    /\ \E env \in Envs, verified \in BOOLEAN :
          /\ missing' = { k \in DOMAIN env : ~Truthy(env[k]) }
          /\ IF load_env(env) # "ok"
             THEN /\ pc' = "raised" /\ error' = load_env(env)
                  /\ did' = did
                  /\ log_lines' = log_lines + 1
             ELSE IF ~verified
                  THEN /\ pc' = "load" /\ error' = "Unauthorized"
                       /\ did' = did \cup {"verify"}
                       /\ log_lines' = log_lines + 1
                  ELSE /\ pc' = "load" /\ error' = error
                       /\ did' = did \cup {"verify"}
                       /\ log_lines' = log_lines + 2
    /\ UNCHANGED <<file, run, already_rt_ids, user, statuses, pos>>
    /\ UNCHANGED history_vars
    /\ UNCHANGED classifier_vars
    /\ UNCHANGED <<classify_calls, rt_calls, ok_run, prev_failed, fetched_ids,
                   invoked, handled, pending>>

\* line 170, create_api_client (lines 55-68): load_env raises on a missing
\* credential, before any call of the API; verify_credentials raises when the
\* credentials are refused
CreateApiClient ==
    /\ pc = "start"
    /\ \E env \in Envs, verified \in BOOLEAN :
          /\ missing' = { k \in DOMAIN env : ~Truthy(env[k]) }
          /\ IF load_env(env) # "ok"
             THEN /\ pc' = "raised" /\ error' = load_env(env)
                  /\ did' = did
                  /\ log_lines' = log_lines + 1
             ELSE IF ~verified
                  THEN /\ pc' = "raised" /\ error' = "Unauthorized"
                       /\ did' = did \cup {"verify"}
                       /\ log_lines' = log_lines + 1
                  ELSE /\ pc' = "load" /\ error' = error
                       /\ did' = did \cup {"verify"}
                       /\ log_lines' = log_lines + 2
    /\ UNCHANGED <<file, run, already_rt_ids, user, statuses, pos>>
    /\ UNCHANGED history_vars
    /\ UNCHANGED classifier_vars
    /\ UNCHANGED <<classify_calls, rt_calls, ok_run, prev_failed, fetched_ids,
                   invoked, handled, pending>>

\* lines 171-172
LoadRetweetedIds ==
    /\ pc = "load"
    /\ already_rt_ids' = load_retweeted_ids(file)
    /\ user' = 1
    /\ pc' = "fetch"
    /\ UNCHANGED <<file, run, statuses, pos, error>>
    /\ UNCHANGED history_vars
    /\ UNCHANGED classifier_vars
    /\ did' = did \cup {"load"}
    /\ log_lines' = log_lines + 1
    /\ UNCHANGED <<classify_calls, rt_calls, ok_run, prev_failed, fetched_ids,
                   invoked, handled, pending>>
    /\ UNCHANGED missing

\* lines 175-176 and 134-139: the next account's timeline is fetched
FetchOk ==
    /\ pc = "fetch"
    /\ user <= Len(TARGET_USERS)
    /\ \E timeline \in Timelines :
          /\ statuses' = timeline
          /\ fetched_ids' = fetched_ids \cup { p.id : p \in Range(timeline) }
          /\ pending' = Len(timeline)
    /\ pos' = 1
    /\ pc' = "post"
    /\ UNCHANGED <<file, run, already_rt_ids, user, error>>
    /\ UNCHANGED history_vars
    /\ UNCHANGED classifier_vars
    /\ did' = did \cup {"fetch"}
    /\ log_lines' = log_lines + 1
    /\ invoked' = Append(invoked, user)
    /\ handled' = <<>>
    /\ UNCHANGED <<classify_calls, rt_calls, ok_run, prev_failed>>
    /\ UNCHANGED missing

\* lines 140-142: the fetch raised; fetch_and_rt_for_user returns
FetchFail ==
    /\ pc = "fetch"
    /\ user <= Len(TARGET_USERS)
    /\ fetch_failed' = fetch_failed \cup {user}
    /\ user' = user + 1
    /\ UNCHANGED <<file, pc, run, already_rt_ids, statuses, pos, error>>
    /\ UNCHANGED <<rt_success, rt_failed, run_calls, saves, file_at_start,
                   file_at_init, survives>>
    /\ UNCHANGED classifier_vars
    /\ did' = did \cup {"fetch"}
    /\ log_lines' = log_lines + 2
    /\ invoked' = Append(invoked, user)
    /\ handled' = <<>>
    /\ pending' = 0
    /\ UNCHANGED <<classify_calls, rt_calls, ok_run, prev_failed, fetched_ids>>
    /\ UNCHANGED missing

\* the post the loop of line 144 handles next
HasPost == pc = "post" /\ pos <= Len(statuses)
tweet == statuses[pos]

\* is_streaming_tweet on the posts the timelines hold, evaluated once per post
Classified == [p \in Posts |-> is_streaming_tweet(p)]

\* SkipAlreadyRt with a line printed for the post that is passed over
SkipAlreadyRtLogged ==
    /\ HasPost
    /\ py_in(int_str(tweet.id), already_rt_ids)
    /\ pos' = pos + 1
    /\ UNCHANGED <<file, pc, run, already_rt_ids, user, statuses, error>>
    /\ UNCHANGED history_vars
    /\ UNCHANGED classifier_vars
    /\ handled' = Append(handled, tweet.id)
    /\ pending' = pending - 1
    /\ log_lines' = log_lines + 1
    /\ UNCHANGED <<did, classify_calls, rt_calls, ok_run, prev_failed,
                   fetched_ids, invoked>>
    /\ UNCHANGED missing

\* lines 148-149
SkipAlreadyRt ==
    /\ HasPost
    /\ py_in(int_str(tweet.id), already_rt_ids)
    /\ pos' = pos + 1
    /\ UNCHANGED <<file, pc, run, already_rt_ids, user, statuses, error>>
    /\ UNCHANGED history_vars
    /\ UNCHANGED classifier_vars
    /\ handled' = Append(handled, tweet.id)
    /\ pending' = pending - 1
    /\ UNCHANGED <<did, log_lines, classify_calls, rt_calls, ok_run, prev_failed,
                   fetched_ids, invoked>>
    /\ UNCHANGED missing

\* RetweetOk without line 154: the retweet is made and the id is not recorded
RetweetOkNotRecorded ==
    /\ HasPost
    /\ ~py_in(int_str(tweet.id), already_rt_ids)
    /\ Classified[tweet] = "True"
    /\ rt_success' = [rt_success EXCEPT ![tweet.id] = @ + 1]
    /\ run_calls' = run_calls \cup {user}
    /\ pos' = pos + 1
    /\ UNCHANGED <<file, pc, run, already_rt_ids, user, statuses, error>>
    /\ UNCHANGED <<rt_failed, fetch_failed, saves, file_at_start, file_at_init,
                   survives>>
    /\ UNCHANGED classifier_vars
    /\ handled' = Append(handled, tweet.id)
    /\ pending' = pending - 1
    /\ did' = did \cup {"retweet"}
    /\ log_lines' = log_lines + 1
    /\ classify_calls' = classify_calls + 1
    /\ rt_calls' = [rt_calls EXCEPT ![tweet.id] = @ + 1]
    /\ ok_run' = ok_run \cup {tweet.id}
    /\ UNCHANGED <<prev_failed, fetched_ids, invoked>>
    /\ UNCHANGED missing

\* lines 151-158: api.retweet returned
RetweetOk ==
    /\ HasPost
    /\ ~py_in(int_str(tweet.id), already_rt_ids)
    /\ Classified[tweet] = "True"
    /\ already_rt_ids' = already_rt_ids \cup {int_str(tweet.id)}
    /\ rt_success' = [rt_success EXCEPT ![tweet.id] = @ + 1]
    /\ run_calls' = run_calls \cup {user}
    /\ pos' = pos + 1
    /\ UNCHANGED <<file, pc, run, user, statuses, error>>
    /\ UNCHANGED <<rt_failed, fetch_failed, saves, file_at_start, file_at_init,
                   survives>>
    /\ UNCHANGED classifier_vars
    /\ handled' = Append(handled, tweet.id)
    /\ pending' = pending - 1
    /\ did' = did \cup {"retweet"}
    /\ log_lines' = log_lines + 1
    /\ classify_calls' = classify_calls + 1
    /\ rt_calls' = [rt_calls EXCEPT ![tweet.id] = @ + 1]
    /\ ok_run' = ok_run \cup {tweet.id}
    /\ UNCHANGED <<prev_failed, fetched_ids, invoked>>
    /\ UNCHANGED missing

\* RetweetFail with lines 153 and 154 exchanged: the id is recorded before the
\* call that raises
RetweetFailRecorded ==
    /\ HasPost
    /\ ~py_in(int_str(tweet.id), already_rt_ids)
    /\ Classified[tweet] = "True"
    /\ already_rt_ids' = already_rt_ids \cup {int_str(tweet.id)}
    /\ rt_failed' = rt_failed \cup {tweet.id}
    /\ run_calls' = run_calls \cup {user}
    /\ pos' = pos + 1
    /\ UNCHANGED <<file, pc, run, user, statuses, error>>
    /\ UNCHANGED <<rt_success, fetch_failed, saves, file_at_start, file_at_init,
                   survives>>
    /\ UNCHANGED classifier_vars
    /\ handled' = Append(handled, tweet.id)
    /\ pending' = pending - 1
    /\ did' = did \cup {"retweet"}
    /\ log_lines' = log_lines + 1
    /\ classify_calls' = classify_calls + 1
    /\ rt_calls' = [rt_calls EXCEPT ![tweet.id] = @ + 1]
    /\ UNCHANGED <<ok_run, prev_failed, fetched_ids, invoked>>
    /\ UNCHANGED missing

\* lines 151-153 and 159-161: api.retweet raised
RetweetFail ==
    /\ HasPost
    /\ ~py_in(int_str(tweet.id), already_rt_ids)
    /\ Classified[tweet] = "True"
    /\ rt_failed' = rt_failed \cup {tweet.id}
    /\ run_calls' = run_calls \cup {user}
    /\ pos' = pos + 1
    /\ UNCHANGED <<file, pc, run, already_rt_ids, user, statuses, error>>
    /\ UNCHANGED <<rt_success, fetch_failed, saves, file_at_start, file_at_init,
                   survives>>
    /\ UNCHANGED classifier_vars
    /\ handled' = Append(handled, tweet.id)
    /\ pending' = pending - 1
    /\ did' = did \cup {"retweet"}
    /\ log_lines' = log_lines + 1
    /\ classify_calls' = classify_calls + 1
    /\ rt_calls' = [rt_calls EXCEPT ![tweet.id] = @ + 1]
    /\ UNCHANGED <<ok_run, prev_failed, fetched_ids, invoked>>
    /\ UNCHANGED missing

\* lines 151 and 162-165
SkipNotStreaming ==
    /\ HasPost
    /\ ~py_in(int_str(tweet.id), already_rt_ids)
    /\ Classified[tweet] = "False"
    /\ pos' = pos + 1
    /\ UNCHANGED <<file, pc, run, already_rt_ids, user, statuses, error>>
    /\ UNCHANGED history_vars
    /\ UNCHANGED classifier_vars
    /\ handled' = Append(handled, tweet.id)
    /\ pending' = pending - 1
    /\ log_lines' = log_lines + 1
    /\ classify_calls' = classify_calls + 1
    /\ UNCHANGED <<did, rt_calls, ok_run, prev_failed, fetched_ids, invoked>>
    /\ UNCHANGED missing

\* line 151: is_streaming_tweet raised; the call is inside no try, so the
\* exception leaves fetch_and_rt_for_user and main
ClassifyRaises ==
    /\ HasPost
    /\ ~py_in(int_str(tweet.id), already_rt_ids)
    /\ Classified[tweet] \notin {"True", "False"}
    /\ pc' = "raised"
    /\ error' = Classified[tweet]
    /\ survives' = (survives /\ already_rt_ids = load_retweeted_ids(file))
    /\ UNCHANGED <<file, run, already_rt_ids, user, statuses, pos>>
    /\ UNCHANGED <<rt_success, rt_failed, run_calls, fetch_failed, saves,
                   file_at_start, file_at_init>>
    /\ UNCHANGED classifier_vars
    /\ classify_calls' = classify_calls + 1
    /\ UNCHANGED <<did, log_lines, rt_calls, ok_run, prev_failed, fetched_ids,
                   invoked, handled, pending>>
    /\ UNCHANGED missing

\* NextUser with line 178 inside the loop of line 175: the set is saved after
\* each account
NextUserSaving ==
    /\ pc = "post"
    /\ pos > Len(statuses)
    /\ user' = user + 1
    /\ pc' = "fetch"
    /\ statuses' = <<>>
    /\ pos' = 0
    /\ \E xs \in Orderings(already_rt_ids) : file' = save_retweeted_ids(xs).file
    /\ UNCHANGED <<run, already_rt_ids, error>>
    /\ UNCHANGED history_vars
    /\ UNCHANGED classifier_vars
    /\ UNCHANGED audit_vars
    /\ UNCHANGED missing

\* NextUser with the loop of line 175 stepping over the account that follows
NextUserSkipping ==
    /\ pc = "post"
    /\ pos > Len(statuses)
    /\ user' = user + 2
    /\ pc' = "fetch"
    /\ statuses' = <<>>
    /\ pos' = 0
    /\ UNCHANGED <<file, run, already_rt_ids, error>>
    /\ UNCHANGED history_vars
    /\ UNCHANGED classifier_vars
    /\ UNCHANGED audit_vars
    /\ UNCHANGED missing

\* line 144 finds no further post: fetch_and_rt_for_user returns to line 175 and
\* its locals are gone
NextUser ==
    /\ pc = "post"
    /\ pos > Len(statuses)
    /\ user' = user + 1
    /\ pc' = "fetch"
    /\ statuses' = <<>>
    /\ pos' = 0
    /\ UNCHANGED <<file, run, already_rt_ids, error>>
    /\ UNCHANGED history_vars
    /\ UNCHANGED classifier_vars
    /\ UNCHANGED audit_vars
    /\ UNCHANGED missing

\* SaveRetweetedIds writing the ids retweeted in this run in place of the set
SaveNewIdsOnly ==
    /\ pc = "fetch"
    /\ user > Len(TARGET_USERS)
    /\ \E xs \in Orderings({ int_str(id) : id \in ok_run }) : file' = save_retweeted_ids(xs).file
    /\ saves' = saves + 1
    /\ pc' = "done"
    /\ UNCHANGED <<run, already_rt_ids, user, statuses, pos, error>>
    /\ UNCHANGED <<rt_success, rt_failed, run_calls, fetch_failed, file_at_start,
                   file_at_init, survives>>
    /\ UNCHANGED classifier_vars
    /\ log_lines' = log_lines + 1
    /\ UNCHANGED <<did, classify_calls, rt_calls, ok_run, prev_failed, fetched_ids,
                   invoked, handled, pending>>
    /\ UNCHANGED missing

\* lines 178-179, after the loop of line 175 has gone through TARGET_USERS:
\* the call returns and line 179 prints, or the UnicodeEncodeError of line 86
\* ends the run
SaveRetweetedIds ==
    /\ pc = "fetch"
    /\ user > Len(TARGET_USERS)
    /\ \E xs \in Orderings(already_rt_ids) :
          LET r == save_retweeted_ids(xs)
          IN  /\ file' = r.file
              /\ pc' = IF r.ok THEN "done" ELSE "raised"
              /\ error' = IF r.ok THEN error ELSE "UnicodeEncodeError"
              /\ log_lines' = IF r.ok THEN log_lines + 1 ELSE log_lines
    /\ saves' = saves + 1
    /\ UNCHANGED <<run, already_rt_ids, user, statuses, pos>>
    /\ UNCHANGED <<rt_success, rt_failed, run_calls, fetch_failed, file_at_start,
                   file_at_init, survives>>
    /\ UNCHANGED classifier_vars
    /\ UNCHANGED <<did, classify_calls, rt_calls, ok_run, prev_failed, fetched_ids,
                   invoked, handled, pending>>
    /\ UNCHANGED missing

\* the process has ended; the scheduler starts it again, with the file as the
\* last run left it and nothing else kept
NextRun ==
    /\ pc \in {"done", "raised"}
    /\ run < MaxRuns
    /\ run' = run + 1
    /\ pc' = "start"
    /\ already_rt_ids' = {}
    /\ user' = 0
    /\ statuses' = <<>>
    /\ pos' = 0
    /\ error' = ""
    /\ rt_failed' = {}
    /\ run_calls' = {}
    /\ fetch_failed' = {}
    /\ saves' = 0
    /\ file_at_start' = file
    /\ UNCHANGED <<file, rt_success, file_at_init, survives>>
    /\ UNCHANGED classifier_vars
    /\ did' = {}
    /\ log_lines' = 0
    /\ classify_calls' = 0
    /\ rt_calls' = [id \in PostIds |-> 0]
    /\ ok_run' = {}
    /\ prev_failed' = { id \in prev_failed \cup rt_failed : rt_success[id] = 0 }
    /\ fetched_ids' = {}
    /\ invoked' = <<>>
    /\ handled' = <<>>
    /\ pending' = 0
    /\ missing' = {}

Next ==
    \/ CreateApiClient
    \/ LoadRetweetedIds
    \/ FetchOk
    \/ FetchFail
    \/ SkipAlreadyRt
    \/ RetweetOk
    \/ RetweetFail
    \/ SkipNotStreaming
    \/ ClassifyRaises
    \/ NextUser
    \/ SaveRetweetedIds
    \/ NextRun

Spec == Init /\ [][Next]_vars

(***************************************************************************)
(* The classifier on its own: is_streaming_tweet applied to one Status     *)
(* drawn from the combinations of the field values below.                  *)
(***************************************************************************)
TextValues ==
    { Missing, None, Str(""),
      Str("<tsugi><no><hai><shin><ya><ru><yo>"),
      Str("@someone <hai><shin><o><tsuka><re> <tsugi><no><hai><shin>"),
      Str(" \n<u+3000>\f@someone twitch.tv/kurin_musee"),
      Str("twitch.tv/<u+212a>urin_musee"),
      Str("<ima><hi><ha><ten><ki><ga><i><i><ne>"),
      Str("Live now: HTTP://TWITCH.TV/Aomishibi") }

FullTextValues ==
    { Missing, None,
      Str("@someone <hai><shin><ha><ji><ma><ru><yo>"),
      Str("\r@someone <hai><shin><ha><ji><ma><ru><yo>"),
      Str("<hai><shin><ha><ji><ma><ru><yo>!"),
      Str("<hai><shin> <ha><ji><ma><ru><yo>") }

\* the "hashtags" list of entities: each element's "text" key
HashtagLists ==
    { NoList, List(<<>>),
      List(<<Str("CORO<hai><shin>")>>),
      List(<<Str("coro<hai><shin>")>>),
      List(<<Str("#CORO<hai><shin>"), Str("<ao><umi><shi><bi><hai><shin>")>>),
      List(<<None>>),
      List(<<Missing>>),
      List(<<Str("<rai><rin><mi><yu><ze><hai><shin>"), Missing>>) }

\* the "urls" list of entities: each element's "expanded_url" key
UrlLists ==
    { NoList, List(<<>>),
      List(<<Str("https://youtu.be/xyz")>>),
      List(<<Str("https://example.com/a"), Str("https://www.nicovideo.jp/watch/1")>>),
      List(<<Str("https://www.YouTube.com/watch")>>),
      List(<<Missing>>),
      List(<<None>>),
      List(<<Str("https://www.twitch.tv/aomishibi"), None>>),
      List(<<None, Str("https://www.twitch.tv/aomishibi")>>) }

EntitiesValues ==
    {NoEntities, NoneEntities}
        \cup { Entities(h, u) : h \in HashtagLists, u \in UrlLists }

StatusPool ==
    { Status(1, t, f, r, e) :
        t \in TextValues, f \in FullTextValues, r \in BOOLEAN, e \in EntitiesValues }

InitClassify ==
    /\ status \in StatusPool
    /\ result = "pending"
    /\ file = Absent
    /\ pc = "classify"
    /\ run = 1
    /\ already_rt_ids = {}
    /\ user = 0
    /\ statuses = <<>>
    /\ pos = 0
    /\ error = ""
    /\ rt_success = [id \in PostIds |-> 0]
    /\ rt_failed = {}
    /\ run_calls = {}
    /\ fetch_failed = {}
    /\ saves = 0
    /\ file_at_start = Absent
    /\ file_at_init = Absent
    /\ survives = TRUE
    /\ did = {}
    /\ log_lines = 0
    /\ classify_calls = 0
    /\ rt_calls = [id \in PostIds |-> 0]
    /\ ok_run = {}
    /\ prev_failed = {}
    /\ fetched_ids = {}
    /\ invoked = <<>>
    /\ handled = <<>>
    /\ pending = 0
    /\ missing = {}

\* the call of line 151
Classify ==
    /\ pc = "classify"
    /\ result = "pending"
    /\ result' = is_streaming_tweet(status)
    /\ UNCHANGED <<file, pc, run, already_rt_ids, user, statuses, pos, error, status>>
    /\ UNCHANGED history_vars
    /\ UNCHANGED audit_vars
    /\ UNCHANGED missing

SpecClassify == InitClassify /\ [][Classify]_vars

(***************************************************************************)
(* The dedup store on its own: load_retweeted_ids (lines 71-80) and        *)
(* save_retweeted_ids (lines 83-86) applied to one file and one set of     *)
(* ids.  save is open(..., "w"), which empties the file, followed by       *)
(* json.dump, which hands the text to the file object chunk by chunk, and  *)
(* the close that flushes what the file object holds.  The texts here are  *)
(* shorter than the buffer of the file object, so nothing reaches the file *)
(* before the close.  The process can be ended in between: an exception    *)
(* (KeyboardInterrupt on SIGINT) leaves the with block, which closes the   *)
(* file; SIGKILL, SIGTERM or a power loss end the process with no close.   *)
(***************************************************************************)
\* the ids of the store: two ints, a str, and a str that holds a surrogate
StoreIds == {"1", "20", "\"305\"", "\"<u+d800>\""}

\* saves followed within one behaviour
MaxSaves == 2

\* contents on which line 76 raises (an empty or cut-off file, text that is no
\* JSON) or line 77 raises (a JSON number or null, an array that holds an array)
BrokenContents ==
    { "", "[", "[\n  1,", "[\n  1,\n  20", "[1 20]", "[1,]", "ids: 1", "7", "null",
      "[[1], 20]" }

\* contents json.load reads as an array of ints and strs
ArrayContents ==
    { json_dump(xs).text : xs \in UNION { Orderings(S) : S \in SUBSET {"1", "20", "\"305\""} } }
        \cup { "[1, 20]", " [ 305 ]\n", "[1, 1]", "[1]\r\n", "[\"1\", 1]" }

\* contents json.load reads and set() accepts that are no array of ints and
\* strs: a str, an object, arrays of floats, booleans and null, a str that
\* UTF-8 cannot encode, an exponent of many digits, nested containers
ForeignContents ==
    { "\"ab\"", "{\"1\": 2}", "[1.5, 20.0]", "[true, 1]", "[null]", "[\"\\ud800\", 1]",
      "[1e16, 10000000000000000]", "[9007199254740993.0, 1e400]",
      "[1000000e-0000000000000000000006, 1]", "{\"a\": [[1]], \"b\": {}}" }

StoreFiles ==
    {Absent} \cup { FileOf(c) : c \in BrokenContents \cup ArrayContents \cup ForeignContents }

InitStore ==
    /\ file \in StoreFiles
    /\ already_rt_ids \in SUBSET StoreIds
    /\ pc = "idle"
    /\ run = 1
    /\ user = 0
    /\ statuses = <<>>
    /\ pos = 0
    /\ error = ""
    /\ rt_success = [id \in PostIds |-> 0]
    /\ rt_failed = {}
    /\ run_calls = {}
    /\ fetch_failed = {}
    /\ saves = 0
    /\ file_at_start = file
    /\ file_at_init = file
    /\ survives = TRUE
    /\ did = {}
    /\ log_lines = 0
    /\ classify_calls = 0
    /\ rt_calls = [id \in PostIds |-> 0]
    /\ ok_run = {}
    /\ prev_failed = {}
    /\ fetched_ids = {}
    /\ invoked = <<>>
    /\ handled = <<>>
    /\ pending = 0
    /\ missing = {}
    /\ status = NoStatus
    /\ result = "unused"

store_frame == <<run, user, statuses, pos, rt_success, rt_failed, run_calls,
                 fetch_failed, file_at_init, survives, log_lines, classify_calls,
                 rt_calls, ok_run, prev_failed, fetched_ids, invoked, handled,
                 pending, missing, status, result>>

\* lines 71-80, called by a process that has just started
StoreLoad ==
    /\ pc \in {"idle", "saved", "killed", "raised"}
    /\ already_rt_ids' = load_retweeted_ids(file)
    /\ pc' = "loaded"
    /\ error' = ""
    /\ did' = {"load"}
    /\ UNCHANGED <<file, file_at_start, saves>>
    /\ UNCHANGED store_frame

\* line 85: open(RETWEETED_LOG_FILE, "w") creates the file or cuts it to length 0
StoreOpen ==
    /\ pc \in {"idle", "loaded"}
    /\ saves < MaxSaves
    /\ file_at_start' = file
    /\ file' = FileOf("")
    /\ pc' = "writing"
    /\ UNCHANGED <<already_rt_ids, error, saves, did>>
    /\ UNCHANGED store_frame

\* line 86 and the end of the with block: what json.dump wrote reaches the
\* file, also when it raised
StoreDump ==
    /\ pc = "writing"
    /\ \E xs \in Orderings(already_rt_ids) :
          LET r == save_retweeted_ids(xs)
          IN  /\ file' = r.file
              /\ pc' = IF r.ok THEN "saved" ELSE "raised"
              /\ error' = IF r.ok THEN error ELSE "UnicodeEncodeError"
    /\ saves' = saves + 1
    /\ UNCHANGED <<already_rt_ids, file_at_start, did>>
    /\ UNCHANGED store_frame

\* SIGINT inside line 86: KeyboardInterrupt is raised between two f.write of
\* json.dump (or before the first, or after the last), the with block closes the
\* file and the chunks written so far reach it
StoreInterrupt ==
    /\ pc = "writing"
    /\ \E xs \in Orderings(already_rt_ids) :
          \E k \in 0..Len(written(json_chunks(xs))) :
              file' = FileOf(join(SubSeq(json_chunks(xs), 1, k)))
    /\ pc' = "killed"
    /\ error' = "KeyboardInterrupt"
    /\ UNCHANGED <<already_rt_ids, file_at_start, saves, did>>
    /\ UNCHANGED store_frame

\* the process is ended with no close (SIGKILL, SIGTERM, power loss) inside the
\* with block of lines 85-86: the file stays as open(..., "w") left it
StoreKill ==
    /\ pc = "writing"
    /\ pc' = "killed"
    /\ error' = "killed"
    /\ UNCHANGED <<file, already_rt_ids, file_at_start, saves, did>>
    /\ UNCHANGED store_frame

NextStore ==
    \/ StoreLoad
    \/ StoreOpen
    \/ StoreDump
    \/ StoreInterrupt
    \/ StoreKill

SpecStore == InitStore /\ [][NextStore]_vars

(***************************************************************************)
(* Properties                                                              *)
(***************************************************************************)
Amplified == { id \in PostIds : rt_success[id] > 0 }

\* the set of the int ids I, as the model writes a set of ids
IdSet(I) == { int_str(id) : id \in I }

\* C1: as long as every run that retweeted also wrote the dedup file (the
\* persisted set survives from run to run), no id is the subject of more than
\* one successful api.retweet call, within a run or across runs.
C1_AmplifiedAtMostOnce ==
    survives => \A id \in PostIds : rt_success[id] <= 1

\* C1's case: a later run meets a matching post that an earlier run retweeted
\* and persisted.
C1_Witness ==
    /\ run > 1
    /\ survives
    /\ ~file_at_init.exists
    /\ HasPost
    /\ is_streaming_tweet(tweet) = "True"
    /\ int_str(tweet.id) \in load_retweeted_ids(file_at_start)
    /\ rt_success[tweet.id] = 1

\* C2: starting from an absent dedup file, every id in the in-memory set and in
\* the persisted file was the subject of a successful api.retweet call.
C2_OnlyAmplifiedIds ==
    ~file_at_init.exists =>
        (already_rt_ids \cup load_retweeted_ids(file)) \subseteq IdSet(Amplified)

\* C2's case: a completed run that persisted a retweeted id, while a post whose
\* retweet only failed stayed out of the file.
C2_Witness ==
    /\ ~file_at_init.exists
    /\ pc = "done"
    /\ load_retweeted_ids(file) # {}
    /\ \E id \in rt_failed : rt_success[id] = 0 /\ int_str(id) \notin load_retweeted_ids(file)

\* C3, as the claim states it: once an api.retweet call has failed in a run, the
\* failed id is in the set only if some call for it succeeded, and the run goes on
\* through the remaining posts and accounts without aborting.
C3_Claim ==
    rt_failed # {} =>
        /\ \A id \in rt_failed : int_str(id) \in already_rt_ids => id \in Amplified
        /\ pc # "raised"

\* C3, the handler alone: the step that handles a failed api.retweet call leaves
\* the set as it was and moves to the next post of the same timeline.
C3_HandlerStep ==
    [][RetweetFail =>
          /\ already_rt_ids' = already_rt_ids
          /\ pc' = "post" /\ pos' = pos + 1
          /\ user' = user /\ statuses' = statuses]_vars

\* C4, as the claim states it: for an account whose fetch failed no api.retweet
\* call is made, and the run still goes through every later account and
\* persists the set at its end.
C4_Claim ==
    \A a \in fetch_failed :
        /\ a \notin run_calls
        /\ pc # "raised"
        /\ pc = "done" => (user > Len(TARGET_USERS) /\ saves = 1)

\* C4, the handler alone: the step that handles a failed fetch changes neither
\* the set nor the file and moves to the next account.
C4_HandlerStep ==
    [][FetchFail =>
          /\ already_rt_ids' = already_rt_ids /\ file' = file
          /\ run_calls' = run_calls
          /\ pc' = "fetch" /\ user' = user + 1]_vars

\* C5, as the claim states it: a run ends by an exception only for a missing
\* credential or a refused identity verification; every other run goes through
\* all accounts and persists the set.
C5_Claim ==
    /\ pc = "raised" => error \in {"RuntimeError", "Unauthorized"}
    /\ pc = "done" => (user > Len(TARGET_USERS) /\ saves = 1)

\* C6, as the claim states it: is_streaming_tweet returns a boolean for every
\* Status, whichever fields are missing or null.
C6_Claim ==
    result # "pending" => result \in {"True", "False"}

\* C7: during account processing the file is what it was when the run started
\* and no save has happened; a completed run has saved exactly once, after the
\* last account; a run that raised has not saved.
C7_SavedOnceAtEnd ==
    /\ pc \in {"load", "fetch", "post", "raised"} => (saves = 0 /\ file = file_at_start)
    /\ pc = "done" => (saves = 1 /\ user > Len(TARGET_USERS))

\* C7's case: an id was retweeted in this run and the file does not hold it yet.
C7_Witness ==
    /\ pc \in {"fetch", "post"}
    /\ \E id \in PostIds :
          /\ int_str(id) \in already_rt_ids
          /\ int_str(id) \notin load_retweeted_ids(file)
          /\ rt_success[id] > 0

\* the text body of a post: full_text when the payload has it, else text
PostText(st) ==
    IF st.full_text.kind = "str" THEN st.full_text.val
    ELSE IF st.text.kind = "str" THEN st.text.val
    ELSE ""

\* a reply: the text starts with an at-mention (leading white space ignored, as
\* line 97 does)
IsReply(st) == startswith(strip(PostText(st)), "@")

\* the inclusion rules, read off the fields of the post
KeywordMatch(st) ==
    \E i \in DOMAIN KEYWORDS : str_in(lower(KEYWORDS[i]), lower(PostText(st)))

HashtagMatch(st) ==
    \E i \in DOMAIN st.entities.hashtags.val :
        /\ st.entities.hashtags.val[i].kind = "str"
        /\ st.entities.hashtags.val[i].val \in Range(HASHTAGS)

UrlMatch(st) ==
    \E i \in DOMAIN st.entities.urls.val :
        /\ st.entities.urls.val[i].kind = "str"
        /\ \E j \in DOMAIN SERVICES : str_in(SERVICES[j], st.entities.urls.val[i].val)

\* C8, as the claim states it: for a reply is_streaming_tweet returns False,
\* whatever else the post holds.
C8_Claim ==
    (result # "pending" /\ IsReply(status)) => result = "False"

\* C9, as the claim states it: for a post that carries retweeted_status
\* is_streaming_tweet returns False.
C9_Claim ==
    (result # "pending" /\ status.retweeted_status) => result = "False"

\* C10, as the claim states it: for a post that is neither a reply nor a repost
\* is_streaming_tweet returns True when a keyword, hashtag or URL rule matches
\* and False when none does.
C10_Claim ==
    (result # "pending" /\ ~IsReply(status) /\ ~status.retweeted_status) =>
        result = (IF KeywordMatch(status) \/ HashtagMatch(status) \/ UrlMatch(status)
                  THEN "True" ELSE "False")

\* C8, C9 and C10 for the calls that return: whenever is_streaming_tweet returns
\* a value, the value is False for a reply and for a repost, and for any other
\* post it is True exactly when a rule matches.
C8_WhenReturned ==
    (result \in {"True", "False"} /\ IsReply(status)) => result = "False"

C9_WhenReturned ==
    (result \in {"True", "False"} /\ status.retweeted_status) => result = "False"

C10_WhenReturned ==
    (result \in {"True", "False"} /\ ~IsReply(status) /\ ~status.retweeted_status) =>
        result = (IF KeywordMatch(status) \/ HashtagMatch(status) \/ UrlMatch(status)
                  THEN "True" ELSE "False")

\* what a save that took place left, or what was there before it began
CompleteContent ==
    \/ file = file_at_start
    \/ \E xs \in Orderings(already_rt_ids) :
          save_retweeted_ids(xs).ok /\ file = save_retweeted_ids(xs).file

\* C11: when the process is ended during save_retweeted_ids, the file holds the
\* complete previous content or the complete text of the new set, so that the
\* next load returns one of the two sets.
C11_Claim ==
    pc = "killed" =>
        /\ CompleteContent
        /\ load_retweeted_ids(file) \in {load_retweeted_ids(file_at_start), already_rt_ids}

\* the value is an identifier: a str of Unicode text or a number
IsId(v) ==
    \/ (At(v, 1) = "\"" /\ Encodable(v))
    \/ InStr(At(v, 1), Digits)
    \/ (At(v, 1) = "-" /\ InStr(At(v, 2), Digits))

\* the content is the text of a collection of identifiers: a JSON array whose
\* elements are strings or numbers
IdCollection(content) ==
    LET ids == json_load(content)
    IN  /\ ids.ok
        /\ ids.kind = "list"
        /\ \A k \in DOMAIN ids.items : IsId(ids.items[k])

\* C12: load_retweeted_ids on an absent file, or on a file whose content is not
\* the text of a collection of identifiers, returns the empty set and raises
\* nothing.
C12_Claim ==
    (pc = "loaded" /\ (~file.exists \/ ~IdCollection(file.content))) =>
        (error = "" /\ already_rt_ids = {})

\* C12 for the contents on which json.load or set() raises, and for the absent
\* file: the exception is swallowed and the set is empty
C12_WhenRaised ==
    (pc = "loaded" /\ (~file.exists \/ load_raises(file.content))) =>
        (error = "" /\ already_rt_ids = {})

\* C13: after save_retweeted_ids(S), load_retweeted_ids returns S whatever the
\* order list(S) took; and when S itself came from a load, the set in the file
\* after the save is the set that was in the file before it.
C13_RoundTrip ==
    (pc \in {"saved", "raised"} /\ \A v \in already_rt_ids : IsId(v)) =>
        /\ pc = "saved"
        /\ load_retweeted_ids(file) = already_rt_ids
        /\ ("load" \in did => load_retweeted_ids(file) = load_retweeted_ids(file_at_start))

\* a set that holds a str with a surrogate is no set of identifiers: line 86
\* raises on it and what the file holds is the text up to that element
C13_SurrogateRaises ==
    (pc \in {"saved", "raised"} /\ (\E v \in already_rt_ids : ~Encodable(v))) =>
        /\ pc = "raised"
        /\ error = "UnicodeEncodeError"
        /\ \E xs \in Orderings(already_rt_ids) : file = save_retweeted_ids(xs).file
        /\ load_raises(file.content)

\* C13's case: a set of several ids, an int of several digits and a str, saved,
\* loaded and saved again
C13_Witness ==
    /\ pc = "saved"
    /\ "load" \in did
    /\ saves >= 2
    /\ {"20", "\"305\""} \subseteq already_rt_ids
    /\ load_retweeted_ids(file) = already_rt_ids

\* C14: when a credential is missing or empty, the run ends with the
\* RuntimeError of load_env before any call of the API (no verify_credentials,
\* no user_timeline, no retweet), before any account is handled, and the dedup
\* file stays as it was.
C14_MissingCredentialAborts ==
    missing # {} =>
        /\ pc = "raised"
        /\ error = "RuntimeError"
        /\ did = {}
        /\ invoked = <<>>
        /\ fetched_ids = {}
        /\ \A id \in PostIds : rt_calls[id] = 0
        /\ saves = 0
        /\ file = file_at_start

\* C14's case: a run that lacks one credential only, started on a file an
\* earlier run wrote
C14_Witness ==
    /\ missing = {"X_ACCESS_TOKEN_SECRET"}
    /\ pc = "raised"
    /\ run > 1
    /\ "2" \in load_retweeted_ids(file)

\* C15: when api.verify_credentials raises, the run ends there: no account is
\* fetched, api.retweet is not called, the dedup set is neither loaded nor
\* saved, and the dedup file stays as it was.
C15_VerifyFailureAborts ==
    error = "Unauthorized" =>
        /\ pc = "raised"
        /\ did = {"verify"}
        /\ invoked = <<>>
        /\ fetched_ids = {}
        /\ \A id \in PostIds : rt_calls[id] = 0
        /\ already_rt_ids = {}
        /\ saves = 0
        /\ file = file_at_start

\* C15's case: the credentials are complete and refused, in a run started on a
\* file an earlier run wrote
C15_Witness ==
    /\ error = "Unauthorized"
    /\ missing = {}
    /\ pc = "raised"
    /\ run > 1
    /\ "2" \in load_retweeted_ids(file)

\* the first account's timeline was [1, 2], the file held {1} when the run
\* started, both posts have been handled and no api.retweet call raised
ScenarioE ==
    /\ pc = "post"
    /\ user = 1
    /\ load_retweeted_ids(file_at_start) = {"1"}
    /\ Len(statuses) = 2
    /\ statuses[1].id = 1
    /\ statuses[2].id = 2
    /\ pos = 3
    /\ rt_failed = {}

\* C16: a step taken on a post whose id is in already_rt_ids calls neither
\* api.retweet nor is_streaming_tweet, prints nothing, leaves already_rt_ids
\* and the file as they are and moves on to the next post; and with the set {1}
\* and the posts [1, 2], both matching, api.retweet is called for 2 only and
\* the set becomes {1, 2}.
C16_SkipLeavesNoTrace ==
    /\ [][ (HasPost /\ py_in(int_str(tweet.id), already_rt_ids)) =>
              /\ already_rt_ids' = already_rt_ids
              /\ rt_calls' = rt_calls
              /\ rt_success' = rt_success
              /\ rt_failed' = rt_failed
              /\ did' = did
              /\ classify_calls' = classify_calls
              /\ log_lines' = log_lines
              /\ file' = file
              /\ pc' = "post"
              /\ pos' = pos + 1 ]_vars
    /\ [](ScenarioE =>
              /\ rt_calls = [id \in PostIds |-> IF id = 2 THEN 1 ELSE 0]
              /\ already_rt_ids = {"1", "2"})

\* C16's case: the run of the scenario has ended; post 1 was fetched and never
\* the subject of a call, and the file holds {1, 2}
C16_Witness ==
    /\ pc = "done"
    /\ load_retweeted_ids(file_at_start) = {"1"}
    /\ fetched_ids = {1, 2}
    /\ rt_calls[1] = 0
    /\ rt_calls[2] = 1
    /\ classify_calls = 1
    /\ load_retweeted_ids(file) = {"1", "2"}

\* the process has ended, by the return of main or by an exception
Ended == pc \in {"done", "raised"}

\* C17: a post whose api.retweet call raised in an earlier run, and that a later
\* run fetches while no call for it raises, is the subject of a call in that
\* run and its id is in the file when that run has ended.
C17_Claim ==
    \A id \in prev_failed :
        (Ended /\ id \in fetched_ids /\ id \notin rt_failed) =>
            (rt_calls[id] >= 1 /\ int_str(id) \in load_retweeted_ids(file))

\* what holds of the runs that reach line 179
C17_WhenCompleted ==
    \A id \in prev_failed :
        (pc = "done" /\ id \in fetched_ids /\ id \notin rt_failed) =>
            (rt_calls[id] = 1 /\ id \in ok_run /\ int_str(id) \in load_retweeted_ids(file))

\* C18, as stated: within one run api.retweet is called at most once for any
\* id, whether the call returns or raises, also when several timelines hold
\* the id.
C18_Claim ==
    \A id \in PostIds : rt_calls[id] <= 1

\* C18, amended: within one run a further api.retweet call for an id is made
\* only after every earlier call for it raised: no call follows one that
\* returned, and a call that raised leaves the id out of already_rt_ids, so that
\* a later post of the run with the same id is the subject of a new call.
C18_NoCallAfterSuccess ==
    [][ \A id \in PostIds :
            (run' = run /\ rt_calls'[id] > rt_calls[id]) =>
                /\ rt_calls'[id] = rt_calls[id] + 1
                /\ int_str(id) \notin already_rt_ids
                /\ id \notin ok_run
                /\ (rt_calls[id] > 0 => id \in rt_failed) ]_vars

\* C18's case: the call for post 1 raised in the first account's timeline and
\* was made again, and returned, in the second account's timeline
C18_Witness ==
    /\ rt_calls[1] = 2
    /\ \A id \in PostIds \ {1} : rt_calls[id] = 0
    /\ run_calls = {1, 2}
    /\ 1 \in rt_failed
    /\ 1 \in ok_run
    /\ "1" \in already_rt_ids

\* C19: fetch_and_rt_for_user is called for the accounts of TARGET_USERS in
\* their order, once each by the time the run completes; within a call the
\* posts are handled one at a time in the order of the timeline; and when the
\* next account is fetched no post of the previous one is left.
C19_SequentialOrder ==
    /\ invoked = [i \in 1..Len(invoked) |-> i]
    /\ Len(invoked) <= Len(TARGET_USERS)
    /\ (pc = "done" => (Len(invoked) = Len(TARGET_USERS) /\ pending = 0))
    /\ (pc = "fetch" => (Len(invoked) = user - 1 /\ pending = 0))
    /\ (pc = "post" =>
            /\ invoked # <<>>
            /\ invoked[Len(invoked)] = user
            /\ handled = [i \in 1..(pos - 1) |-> statuses[i].id]
            /\ pending = Len(statuses) - Len(handled))

\* C19's case: a completed run whose first account held post 3 and whose second
\* account held the posts 2 and 1, handled in that order
C19_Witness ==
    /\ pc = "done"
    /\ invoked = <<1, 2>>
    /\ handled = <<2, 1>>
    /\ fetched_ids = {1, 2, 3}
    /\ fetch_failed = {}

Loaded == load_retweeted_ids(file_at_start)

\* C20: from the load on, already_rt_ids never loses an id within a run and is
\* at any moment the loaded set united with the ids retweeted so far; the set
\* the completed run writes is that union, and so holds every id the file held
\* when the run started.
C20_SetOnlyGrows ==
    /\ [][ (run' = run /\ "load" \in did) =>
               already_rt_ids \subseteq already_rt_ids' ]_vars
    /\ []("load" \in did => already_rt_ids = Loaded \cup IdSet(ok_run))
    /\ [](pc = "done" =>
              /\ load_retweeted_ids(file) = Loaded \cup IdSet(ok_run)
              /\ Loaded \subseteq load_retweeted_ids(file))

\* C20's case: a later run, started on the file of an earlier one, retweeted a
\* new id while another call raised, and has written the file
C20_Witness ==
    /\ pc = "done"
    /\ run > 1
    /\ Loaded # {}
    /\ ok_run # {}
    /\ IdSet(ok_run) \cap Loaded = {}
    /\ rt_failed # {}
    /\ load_retweeted_ids(file) = Loaded \cup IdSet(ok_run)

====
